---- MODULE Spec2Model ----
(***************************************************************************)
(* Data-center topology generator of infrahub-bundle-dc.                   *)
(*                                                                         *)
(* DCTopologyGenerator.generate (src/generators/generate_dc.py) awaits the *)
(* methods of DCTopologyCreator / TopologyCreator one after the other.     *)
(* Each awaited method is one action; pc names the method called next and  *)
(* trace records the calls made so far.  An exception raised inside a      *)
(* method leaves generate(): pc = "failed".                                *)
(*                                                                         *)
(* Strings that the code takes apart are modelled by their parts: a device *)
(* name "{site}-{role}-{NN}" is the record [site, role, seq] with seq the  *)
(* decimal digits written by zfill(2); an interface name "Ethernet7" is    *)
(* [base, num] and "Ethernet[1-4]" carries its bracket <<1, 4>>.           *)
(***************************************************************************)
EXTENDS Integers, Sequences, FiniteSets, TLC

VARIABLES
    pc,             \* method generate() calls next, or "done" / "failed"
    trace,          \* methods of the creator called so far, in order
    data,           \* the TopologyDataCenter design handed to generate()
    scenario,       \* "ospf" / "ebgp" once detected, "" before
    templates,      \* self.data["templates"]: template name -> expanded interfaces
    store,          \* client.store: set of <<kind, key>> of stored objects
    devices,        \* self.devices, in creation order
    interfaces,     \* interface objects created on the platform
    rack_occupancy, \* rack number -> <<[device, position, height], ...>> as saved
    cables,         \* DcimCable objects, in creation order
    asns,           \* store key of a RoutingAutonomousSystem -> ASN (pool offset)
    ospf,           \* ServiceOSPF instances (device names)
    sessions,       \* ServiceBGP objects queued and saved, in creation order
    arg,            \* a helper function under call: [fn, value]
    result,         \* what each copy of the helper returned: copy -> value
    script,         \* a command-line script under way: its locals and position
    platform        \* what the script meets on the platform and has done to it

generator_vars == <<pc, trace, data, scenario, templates, store, devices,
                    interfaces, rack_occupancy, cables, asns, ospf, sessions>>

(* State outside the generator: helper functions called on their own, scripts *)
helper_vars == <<arg, result>>

script_vars == <<script, platform>>

other_vars == <<helper_vars, script_vars>>

vars == <<generator_vars, other_vars>>

NoHelper == arg = [fn |-> "none"] /\ result = << >>

NoScript == script = [name |-> "none"] /\ platform = << >>

NoOther == NoHelper /\ NoScript

----------------------------------------------------------------------------
(* Bounds of the model                                                     *)

MaxLeaf == 4
MaxSpine == 2
MaxBorder == 1
MaxConsole == 2
MaxOob == 2
MaxHeight == 2
MaxPorts == 3
MaxElements == 3
MaxQuantity == 4

(* Parts in a bracket and the largest number written in one *)
MaxParts == 2

MaxNumber == 3

(* Nesting of a query response *)
MaxDepth == 4

(* Network segments: distinct positive VLAN IDs, services on the interfaces *)
MaxVlan == 2

MaxServices == 2

(* Largest max_retries handed to check_infrahub_ready *)
MaxRetries == 6

(* Runs of the RBAC script on one platform, and calls that raise in them *)
MaxRuns == 2

MaxFailures == 1
(* Longest generator wait of the service catalog, in seconds *)
MaxWait == 3

(* Program constants                                                       *)

RackUnits == 42

----------------------------------------------------------------------------
(* Generic helpers                                                         *)

Range(s) == {s[i] : i \in DOMAIN s}

Max(a, b) == IF a >= b THEN a ELSE b

RECURSIVE SumSeq(_)
SumSeq(s) == IF s = << >> THEN 0 ELSE Head(s) + SumSeq(Tail(s))

RECURSIVE Flatten(_)
Flatten(ss) == IF ss = << >> THEN << >> ELSE Head(ss) \o Flatten(Tail(ss))

MinOf(S) == CHOOSE x \in S : \A y \in S : x <= y

(* str(n): decimal digits of n, most significant first *)
RECURSIVE Digits(_)
Digits(n) == IF n < 10 THEN <<n>> ELSE Digits(n \div 10) \o <<n % 10>>

(* s.zfill(width): pad on the left with zeros *)
RECURSIVE zfill(_, _)
zfill(s, width) == IF Len(s) >= width THEN s ELSE zfill(<<0>> \o s, width)

(* int(s) for a string of decimal digits *)
RECURSIVE ParseInt(_)
ParseInt(s) ==
    IF s = << >> THEN 0
    ELSE ParseInt(SubSeq(s, 1, Len(s) - 1)) * 10 + s[Len(s)]

(* str.lower() on the strategy strings and topology names the model draws *)
Lower(s) ==
    CASE s = "EBGP" -> "ebgp"
      [] s = "DC1" -> "dc1"
      [] s = "OSPF-iBGP" -> "ospf-ibgp"
      [] OTHER -> s

(* "key in role" for the role strings of the model (Python substring test) *)
Substrings(role) ==
    CASE role = "leaf" -> {"leaf"}
      [] role = "spine" -> {"spine"}
      [] role = "border_leaf" -> {"border_leaf", "border", "leaf"}
      [] role = "console" -> {"console"}
      [] role = "oob" -> {"oob"}
      [] OTHER -> {role}

(* "key in device_name": the site part of the names drawn here ("dc1")     *)
(* contains none of the keys, the sequence part is digits only             *)
NameContains(device_name, key) == key \in Substrings(device_name.role)

----------------------------------------------------------------------------
(* The designs generate() is run on                                        *)

Strategies == {"ebgp-ibgp", "EBGP", "OSPF-iBGP", "ospf", "ospf-ebgp"}

(* A field of a bracket, between "-" and ",": digits (by their value) or   *)
(* anything else                                                           *)
DigitField(n) == [isdigit |-> TRUE, value |-> n]

OtherField == [isdigit |-> FALSE, value |-> 0]

(* The name "{base}{num}{suffix}" *)
InterfaceName(base, num, suffix) ==
    [base |-> base, num |-> num, bracket |-> << >>, suffix |-> suffix]

(* The name "{base}[{bracket}]{suffix}": the bracket is the sequence of    *)
(* its parts between ",", a part the sequence of its fields between "-"    *)
BracketName(base, bracket, suffix) ==
    [base |-> base, num |-> 0, bracket |-> bracket, suffix |-> suffix]

RangedInterface(base, first, last, role) ==
    [name |-> BracketName(base, <<<<DigitField(first), DigitField(last)>>>>, ""),
     role |-> role]

PlainInterface(base, num, role) ==
    [name |-> InterfaceName(base, num, ""), role |-> role]

(* The interfaces of the object template of a role, with `ports` ports in  *)
(* each ranged entry ("Ethernet[1-ports]"); no ranged entry for ports = 0  *)
TemplateInterfaces(role, ports) ==
    LET mgmt == <<PlainInterface("Management", 1, "management")>>
        con  == <<PlainInterface("Console", 1, "console")>>
        rng(base, first, r) ==
            IF ports = 0 THEN << >>
            ELSE <<RangedInterface(base, first, first + ports - 1, r)>>
    IN  CASE role = "spine" ->
               rng("Ethernet", ports + 1, "uplink") \o rng("Ethernet", 1, "leaf")
                   \o mgmt \o con
          [] role \in {"leaf", "border_leaf"} ->
               rng("Ethernet", 1, "uplink") \o mgmt \o con
          [] role = "oob" -> rng("Ethernet", 1, "management") \o con
          [] role = "console" -> rng("Port", 1, "console") \o mgmt
          [] OTHER -> mgmt \o con

Element(role, quantity, height, ports) ==
    [role |-> role,
     quantity |-> quantity,
     device_type |-> [height |-> height],
     template |-> [template_name |-> role,
                   interfaces |-> TemplateInterfaces(role, ports)]]

(* No element of the role, or one element with 1..maxq devices *)
ElementChoices(role, maxq, heights, ports) ==
    {<< >>} \cup {<<Element(role, q, h, ports)>> : q \in 1..maxq, h \in heights}

Design(strategy, elements) ==
    [name |-> "dc1", strategy |-> strategy, design |-> [elements |-> elements]]

----------------------------------------------------------------------------
(* DCTopologyGenerator.generate: scenario detection                        *)

detect_scenario(d) ==
    LET raw == IF "scenario" \in DOMAIN d THEN d.scenario
               ELSE IF "strategy" \in DOMAIN d THEN d.strategy
               ELSE "ospf"
        low == Lower(raw)
    IN  IF low \in {"ebgp-ibgp", "ebgp"} THEN "ebgp"
        ELSE IF low \in {"ospf-ibgp", "ospf"} THEN "ospf"
        ELSE "ospf"

(* Variant: the overlay sessions before the ASNs and the peer groups *)
Phases_overlay_first(scen) ==
    <<"load_data", "create_site", "create_location_hierarchy", "create_racks",
      "create_pools", "create_devices", "assign_devices_to_racks",
      "create_oob_connections_management", "create_oob_connections_console",
      "create_fabric_peering", "create_dual_loopbacks">>
    \o (IF scen = "ospf"
        THEN <<"create_ospf_underlay", "create_ibgp_overlay",
               "create_autonomous_systems", "create_bgp_peer_groups">>
        ELSE <<"create_ibgp_overlay", "create_autonomous_systems",
               "create_bgp_peer_groups", "create_ebgp_underlay">>)

(* The order in which generate() awaits the creator's methods *)
Phases(scen) ==
    <<"load_data", "create_site", "create_location_hierarchy", "create_racks",
      "create_pools", "create_devices", "assign_devices_to_racks",
      "create_oob_connections_management", "create_oob_connections_console",
      "create_fabric_peering", "create_dual_loopbacks">>
    \o (IF scen = "ospf"
        THEN <<"create_ospf_underlay", "create_autonomous_systems",
               "create_bgp_peer_groups", "create_ibgp_overlay">>
        ELSE <<"create_autonomous_systems", "create_bgp_peer_groups",
               "create_ebgp_underlay", "create_ibgp_overlay">>)

(* What generate() awaits after `method` has returned *)
NextCall(scen, method) ==
    LET ph == Phases(scen)
        i  == CHOOSE k \in DOMAIN ph : ph[k] = method
    IN  IF i = Len(ph) THEN "done" ELSE ph[i + 1]

Called(method) == method \in Range(trace)

----------------------------------------------------------------------------
(* TopologyCreator.load_data                                               *)

(* What a call gives back: a value, or the exception it raised *)
Returned(v) == [raised |-> "", value |-> v]

Raised(exception) == [raised |-> exception, value |-> << >>]

(* RANGE_PATTERN.search(interface_name): a bracket that holds at least one *)
(* "-" or ","                                                              *)
RANGE_PATTERN_search(interface_name) ==
    /\ interface_name.bracket # << >>
    /\ \/ Len(interface_name.bracket) >= 2
       \/ Len(interface_name.bracket[1]) >= 2

(* Variant: the end of the range left out *)
range_names_exclusive(prefix, suffix, start, end) ==
    [i \in 1..(end - start) |-> InterfaceName(prefix, start + i - 1, suffix)]

(* for i in range(int(start), int(end) + 1): f"{prefix}{i}{suffix}" *)
range_names(prefix, suffix, start, end) ==
    [i \in 1..(end - start + 1) |-> InterfaceName(prefix, start + i - 1, suffix)]

(* The loop over bracket_content.split(","), with `expanded` built so far *)
RECURSIVE expand_parts(_, _, _)
expand_parts(interface_name, parts, expanded) ==
    IF parts = << >>
    THEN Returned(IF expanded # << >> THEN expanded ELSE <<interface_name>>)
    ELSE LET part == Head(parts)
             prefix == interface_name.base
             suffix == interface_name.suffix
         IN  IF Len(part) >= 2
             THEN IF Len(part) # 2
                  THEN Raised("ValueError")  \* start, end = part.split("-")
                  ELSE IF part[1].isdigit /\ part[2].isdigit
                  THEN expand_parts(interface_name, Tail(parts),
                           expanded \o range_names(prefix, suffix,
                                                   part[1].value, part[2].value))
                  ELSE Returned(<<interface_name>>)
             ELSE IF part[1].isdigit
             THEN expand_parts(interface_name, Tail(parts),
                      Append(expanded, InterfaceName(prefix, part[1].value, suffix)))
             ELSE Returned(<<interface_name>>)

expand_interface_range(interface_name) ==
    IF ~RANGE_PATTERN_search(interface_name) THEN Returned(<<interface_name>>)
    ELSE expand_parts(interface_name, interface_name.bracket, << >>)

(* The template's interfaces with every ranged name expanded; the          *)
(* exception of an expansion leaves load_data                              *)
expand_template(template_interfaces) ==
    IF \E k \in DOMAIN template_interfaces :
          expand_interface_range(template_interfaces[k].name).raised # ""
    THEN Raised("ValueError")
    ELSE Returned(Flatten([k \in DOMAIN template_interfaces |->
        LET iface == template_interfaces[k]
            names == expand_interface_range(iface.name).value
        IN  [j \in DOMAIN names |-> [name |-> names[j], role |-> iface.role]]]))

template_results(d) ==
    LET els == d.design.elements
        names == {els[k].template.template_name : k \in DOMAIN els}
        \* a later element of the same template name overwrites an earlier one
        last(n) == CHOOSE k \in DOMAIN els :
                      /\ els[k].template.template_name = n
                      /\ \A j \in DOMAIN els :
                            els[j].template.template_name = n => j <= k
    IN  [n \in names |-> expand_template(els[last(n)].template.interfaces)]

template_raises(d) ==
    \E n \in DOMAIN template_results(d) : template_results(d)[n].raised # ""

expanded_templates(d) ==
    [n \in DOMAIN template_results(d) |-> template_results(d)[n].value]

load_data ==
    /\ pc = "load_data"
    /\ scenario' = detect_scenario(data)
    /\ trace' = Append(trace, "load_data")
    /\ IF template_raises(data)
       THEN /\ pc' = "failed"
            /\ UNCHANGED <<templates, store>>
       ELSE /\ templates' = expanded_templates(data)
            /\ store' = store
                  \cup {<<"CoreStandardGroup", data.design.elements[k].role>> :
                           k \in DOMAIN data.design.elements}
                  \cup {<<"CoreObjectTemplate",
                          data.design.elements[k].template.template_name>> :
                           k \in DOMAIN data.design.elements}
            /\ pc' = NextCall(scenario', "load_data")
    /\ UNCHANGED <<other_vars, data, devices, interfaces, rack_occupancy, cables, asns, ospf,
                   sessions>>

----------------------------------------------------------------------------
(* Locations, racks and pools                                              *)

create_site ==
    /\ pc = "create_site"
    /\ store' = store \cup {<<"LocationBuilding", data.name>>}
    /\ trace' = Append(trace, "create_site")
    /\ pc' = NextCall(scenario, "create_site")
    /\ UNCHANGED <<other_vars, data, scenario, templates, devices, interfaces, rack_occupancy,
                   cables, asns, ospf, sessions>>

create_location_hierarchy ==
    /\ pc = "create_location_hierarchy"
    /\ IF <<"LocationBuilding", data.name>> \in store
       THEN /\ store' = store \cup {<<"LocationPod", "Pod-1">>, <<"LocationRow", "Row-1">>}
            /\ pc' = NextCall(scenario, "create_location_hierarchy")
       ELSE /\ store' = store
            /\ pc' = "failed"
    /\ trace' = Append(trace, "create_location_hierarchy")
    /\ UNCHANGED <<other_vars, data, scenario, templates, devices, interfaces, rack_occupancy,
                   cables, asns, ospf, sessions>>

num_leafs(d) ==
    LET els == d.design.elements
    IN  SumSeq([k \in DOMAIN els |->
                  IF els[k].role = "leaf" THEN els[k].quantity ELSE 0])

create_racks ==
    /\ pc = "create_racks"
    /\ IF <<"LocationRow", "Row-1">> \in store
       THEN /\ store' = store \cup {<<"LocationRack", i>> : i \in 1..num_leafs(data)}
            /\ pc' = NextCall(scenario, "create_racks")
       ELSE /\ store' = store
            /\ pc' = "failed"
    /\ trace' = Append(trace, "create_racks")
    /\ UNCHANGED <<other_vars, data, scenario, templates, devices, interfaces, rack_occupancy,
                   cables, asns, ospf, sessions>>

(* generate() lines 940-969, for a design that has a management subnet    *)
(* and a technical subnet: management pool, the two loopback pools split   *)
(* from the technical subnet, and the VLAN number pool                     *)
create_pools ==
    /\ pc = "create_pools"
    /\ store' = store \cup {<<"CoreIPAddressPool", "management_ip_pool">>,
                            <<"CoreIPAddressPool", "loopback_ip_pool">>,
                            <<"CoreIPAddressPool", "loopback-vtep_ip_pool">>,
                            <<"CoreNumberPool", "VLAN-POOL">>}
    /\ trace' = Append(trace, "create_pools")
    /\ pc' = NextCall(scenario, "create_pools")
    /\ UNCHANGED <<other_vars, data, scenario, templates, devices, interfaces, rack_occupancy,
                   cables, asns, ospf, sessions>>

----------------------------------------------------------------------------
(* TopologyCreator.create_devices                                          *)

(* Variant: a counter that starts again with every element *)
role_counter_per_element(els, k, i) == i

(* role_counters[role] when the i-th device of element k is named *)
role_counter(els, k, i) ==
    SumSeq([j \in 1..(k - 1) |->
              IF els[j].role = els[k].role THEN els[j].quantity ELSE 0]) + i

device_name(topology_name, role, counter) ==
    [site |-> Lower(topology_name), role |-> role, seq |-> zfill(Digits(counter), 2)]

(* The device entries in the order the loops build them *)
device_entries(d) ==
    LET els == d.design.elements
    IN  Flatten([k \in DOMAIN els |->
            [i \in 1..els[k].quantity |->
                [name |-> device_name(d.name, els[k].role, role_counter(els, k, i)),
                 role |-> els[k].role,
                 height |-> els[k].device_type.height,
                 template |-> els[k].template.template_name]]])

(* The store keeps one object per name: the keys of _hfids, in insertion   *)
(* order, each holding the object stored last under that name              *)
RECURSIVE stored_devices(_)
stored_devices(entries) ==
    IF entries = << >> THEN << >>
    ELSE LET n == Len(entries)
             before == stored_devices(SubSeq(entries, 1, n - 1))
             e == entries[n]
         IN  IF \E j \in DOMAIN before : before[j].name = e.name
             THEN [j \in DOMAIN before |->
                      IF before[j].name = e.name THEN e ELSE before[j]]
             ELSE Append(before, e)

get_device_template_name(device) == device.template

(* create_interfaces_from_templates: the interface objects of one device *)
device_interfaces(device, tpls) ==
    LET t == get_device_template_name(device)
    IN  IF t \notin DOMAIN tpls THEN {}
        ELSE {[device |-> device.name,
               name |-> tpls[t][k].name,
               role |-> tpls[t][k].role,
               kind |-> IF tpls[t][k].role = "console"
                        THEN "DcimConsoleInterface" ELSE "InterfacePhysical"] :
                 k \in DOMAIN tpls[t]}

create_devices ==
    /\ pc = "create_devices"
    /\ trace' = Append(trace, "create_devices")
    /\ IF /\ data.design.elements # << >>
          /\ \/ <<"LocationBuilding", data.name>> \notin store
             \/ <<"CoreIPAddressPool", "management_ip_pool">> \notin store
       THEN /\ pc' = "failed"
            /\ UNCHANGED <<devices, interfaces, store>>
       ELSE \E created \in {stored_devices(device_entries(data))} :
                /\ devices' = created
                /\ interfaces' = UNION {device_interfaces(created[k], templates) :
                                           k \in DOMAIN created}
                /\ store' = store \cup {<<"DcimGenericDevice", created[k].name>> :
                                           k \in DOMAIN created}
                /\ pc' = NextCall(scenario, "create_devices")
    /\ UNCHANGED <<other_vars, data, scenario, templates, rack_occupancy, cables, asns, ospf,
                   sessions>>

----------------------------------------------------------------------------
(* TopologyCreator.assign_devices_to_racks                                 *)

get_device_number(name) == ParseInt(name.seq)

get_device_height(device) == device.height

top_position(device_height) == RackUnits - (device_height - 1)

middle_rack_list(total_racks, middle_device_count) ==
    LET middle_start == (total_racks \div 2) - (middle_device_count \div 2)
    IN  [i \in 1..middle_device_count |-> middle_start + i]

(* The leaf loop: leaf number k goes to rack k, at the top of the rack *)
RECURSIVE assign_leafs(_, _, _)
assign_leafs(occ, leaf_devices, total_racks) ==
    IF leaf_devices = << >> THEN occ
    ELSE LET device == Head(leaf_devices)
             rack_num == get_device_number(device.name)
             device_height == get_device_height(device)
             entry == [device |-> device.name,
                       position |-> top_position(device_height),
                       height |-> device_height]
         IN  IF rack_num > total_racks
             THEN assign_leafs(occ, Tail(leaf_devices), total_racks)
             ELSE assign_leafs([occ EXCEPT ![rack_num] = Append(@, entry)],
                               Tail(leaf_devices), total_racks)

(* Variant: one unit below the lowest device, whatever the height *)
next_position_one_below(placed, device_height) ==
    IF placed # << >>
    THEN MinOf({placed[k].position : k \in DOMAIN placed}) - 1
    ELSE top_position(device_height)

(* Where a device of this height goes in a rack holding `placed` *)
next_position(placed, device_height) ==
    IF placed # << >>
    THEN MinOf({placed[k].position : k \in DOMAIN placed}) - device_height
    ELSE top_position(device_height)

(* One of the four middle-rack loops (border leafs, spines, console, OOB). *)
(* res = [ok, racks]; rack_occupancy[rack_num] on a rack number that is no *)
(* key raises KeyError: ok becomes FALSE and the loops end.  idx counts    *)
(* from 0 as in the code.                                                  *)
RECURSIVE assign_to_middle(_, _, _, _)
assign_to_middle(res, group, idx, middle_racks) ==
    IF ~res.ok \/ group = << >> THEN res
    ELSE IF idx >= Len(middle_racks) THEN res
    ELSE LET device == Head(group)
             rack_num == middle_racks[idx + 1]
             device_height == get_device_height(device)
         IN  IF rack_num \notin DOMAIN res.racks
             THEN [ok |-> FALSE, racks |-> res.racks]
             ELSE assign_to_middle(
                    [ok |-> TRUE,
                     racks |-> [res.racks EXCEPT ![rack_num] =
                        Append(@, [device |-> device.name,
                                   position |-> next_position(@, device_height),
                                   height |-> device_height])]],
                    Tail(group), idx + 1, middle_racks)

with_role(devs, role) == SelectSeq(devs, LAMBDA d : d.role = role)

role_containing(devs, key) == SelectSeq(devs, LAMBDA d : key \in Substrings(d.role))

(* The occupancy the method computes: [ok, racks] *)
compute_rack_occupancy(devs) ==
    LET leaf_devices == with_role(devs, "leaf")
        border_leaf_devices == with_role(devs, "border_leaf")
        spine_devices == with_role(devs, "spine")
        console_devices == role_containing(devs, "console")
        oob_devices == role_containing(devs, "oob")
        total_racks == Len(leaf_devices)
        middle_device_count ==
            Max(Len(spine_devices),
                Len(border_leaf_devices) + Len(console_devices) + Len(oob_devices))
        middle_racks == middle_rack_list(total_racks, middle_device_count)
        r0 == [ok |-> TRUE,
               racks |-> assign_leafs([i \in 1..total_racks |-> << >>],
                                      leaf_devices, total_racks)]
        r1 == assign_to_middle(r0, border_leaf_devices, 0, middle_racks)
        r2 == assign_to_middle(r1, spine_devices, 0, middle_racks)
        r3 == assign_to_middle(r2, console_devices, 0, middle_racks)
    IN  assign_to_middle(r3, oob_devices, 0, middle_racks)

assign_devices_to_racks ==
    /\ pc = "assign_devices_to_racks"
    /\ trace' = Append(trace, "assign_devices_to_racks")
    /\ IF with_role(devices, "leaf") = << >>
       THEN \* "No leaf devices found, skipping rack assignment"
            /\ rack_occupancy' = rack_occupancy
            /\ pc' = NextCall(scenario, "assign_devices_to_racks")
       ELSE \E res \in {compute_rack_occupancy(devices)} :
                IF /\ res.ok
                   /\ \A r \in DOMAIN res.racks :
                         res.racks[r] # << >> => <<"LocationRack", r>> \in store
                THEN /\ rack_occupancy' = res.racks
                     /\ pc' = NextCall(scenario, "assign_devices_to_racks")
                ELSE /\ rack_occupancy' = rack_occupancy
                     /\ pc' = "failed"
    /\ UNCHANGED <<other_vars, data, scenario, templates, store, devices, interfaces, cables,
                   asns, ospf, sessions>>

----------------------------------------------------------------------------
(* Cabling: create_oob_connections and create_fabric_peering               *)

(* Order of netutils sort_interface_list on the names of the model:        *)
(* interface type first, then number                                       *)
BaseRank(base) ==
    CASE base = "Console" -> 1
      [] base = "Ethernet" -> 2
      [] base = "Management" -> 3
      [] base = "Port" -> 4
      [] OTHER -> 5

interface_before(a, b) ==
    \/ BaseRank(a.base) < BaseRank(b.base)
    \/ BaseRank(a.base) = BaseRank(b.base) /\ a.num < b.num

RECURSIVE safe_sort_interface_list(_)
safe_sort_interface_list(interface_names) ==
    IF interface_names = << >> THEN << >>
    ELSE LET first == CHOOSE i \in DOMAIN interface_names :
                 /\ \A j \in DOMAIN interface_names :
                        ~interface_before(interface_names[j], interface_names[i])
                 /\ \A j \in 1..(i - 1) :
                        interface_before(interface_names[i], interface_names[j])
                          \/ interface_before(interface_names[j], interface_names[i])
             rest == [j \in 1..(Len(interface_names) - 1) |->
                        IF j < first THEN interface_names[j]
                        ELSE interface_names[j + 1]]
         IN  <<interface_names[first]>> \o safe_sort_interface_list(rest)

(* Names of the template interfaces of a device whose role is in `roles` *)
template_interface_names(device, tpls, roles) ==
    LET t == get_device_template_name(device)
    IN  IF t \notin DOMAIN tpls THEN << >>
        ELSE LET picked == SelectSeq(tpls[t], LAMBDA i : i.role \in roles)
             IN  [k \in DOMAIN picked |-> picked[k].name]

(* Variant: no parity test *)
same_parity_any(source_device, destination_device) == TRUE

(* The parity test of the OOB pairing *)
same_parity(source_device, destination_device) ==
    get_device_number(destination_device) % 2 = get_device_number(source_device) % 2

(* The two nested comprehension loops with pop(0): sources and             *)
(* destinations are sequences of [device, ifaces]; a pair is connected     *)
(* when both still have an interface (and, for OOB, the parities match),   *)
(* and each connection takes the first interface left on either side       *)
RECURSIVE pair_up(_, _, _, _, _)
pair_up(sources, destinations, i, j, check_parity) ==
    IF i > Len(sources) THEN << >>
    ELSE IF j > Len(destinations)
    THEN pair_up(sources, destinations, i + 1, 1, check_parity)
    ELSE LET src == sources[i]
             dst == destinations[j]
         IN  IF /\ src.ifaces # << >>
                /\ dst.ifaces # << >>
                /\ (check_parity => same_parity(src.device, dst.device))
             THEN <<[source |-> src.device,
                     target |-> dst.device,
                     source_interface |-> Head(src.ifaces),
                     destination_interface |-> Head(dst.ifaces)]>>
                  \o pair_up([sources EXCEPT ![i].ifaces = Tail(@)],
                             [destinations EXCEPT ![j].ifaces = Tail(@)],
                             i, j + 1, check_parity)
             ELSE pair_up(sources, destinations, i, j + 1, check_parity)

(* the devices kept, each with its sorted list of interfaces of the roles *)
interface_lists(kept, tpls, roles) ==
    [k \in DOMAIN kept |->
        [device |-> kept[k].name,
         ifaces |-> safe_sort_interface_list(
                        template_interface_names(kept[k], tpls, roles))]]

oob_connections(devs, tpls, connection_type) ==
    LET device_key == IF connection_type = "management" THEN "oob" ELSE "console"
        has(d) == template_interface_names(d, tpls, {connection_type}) # << >>
        is_source(d) == NameContains(d.name, device_key) /\ has(d)
        sources == interface_lists(SelectSeq(devs, is_source), tpls,
                                   {connection_type})
        destinations == interface_lists(
                            SelectSeq(devs, LAMBDA d : ~is_source(d) /\ has(d)),
                            tpls, {connection_type})
    IN  pair_up(sources, destinations, 1, 1, TRUE)

(* client.get of an interface of the given kind by name and device *)
endpoint_exists(ifs, kind, device, name) ==
    \E i \in ifs : i.device = device /\ i.name = name /\ i.kind = kind

connection_endpoints_exist(ifs, connections, kind) ==
    \A k \in DOMAIN connections :
        /\ endpoint_exists(ifs, kind, connections[k].source,
                           connections[k].source_interface)
        /\ endpoint_exists(ifs, kind, connections[k].target,
                           connections[k].destination_interface)

new_cables(connections, cable_type) ==
    [k \in DOMAIN connections |->
        [cable_type |-> cable_type,
         source |-> connections[k].source,
         target |-> connections[k].target,
         source_interface |-> connections[k].source_interface,
         destination_interface |-> connections[k].destination_interface]]

create_oob_connections(connection_type) ==
    LET method == IF connection_type = "management"
                  THEN "create_oob_connections_management"
                  ELSE "create_oob_connections_console"
        kind == IF connection_type = "management"
                THEN "InterfacePhysical" ELSE "DcimConsoleInterface"
    IN  /\ pc = method
        /\ trace' = Append(trace, method)
        /\ \E connections \in {oob_connections(devices, templates, connection_type)} :
             IF connection_endpoints_exist(interfaces, connections, kind)
             THEN /\ cables' = cables \o new_cables(connections, "cat6")
                  /\ pc' = NextCall(scenario, method)
             ELSE /\ cables' = cables
                  /\ pc' = "failed"
        /\ UNCHANGED <<other_vars, data, scenario, templates, store, devices, interfaces,
                       rack_occupancy, asns, ospf, sessions>>

fabric_devices(devs, tpls) ==
    SelectSeq(devs, LAMBDA d : /\ d.role \in {"leaf", "spine", "border_leaf"}
                               /\ get_device_template_name(d) \in DOMAIN tpls)

(* The four groups of step 2, by substring of the device name *)
spine_group(fabric) == SelectSeq(fabric, LAMBDA d : NameContains(d.name, "spine"))

leaf_group(fabric) ==
    SelectSeq(fabric, LAMBDA d : /\ NameContains(d.name, "leaf")
                                 /\ ~NameContains(d.name, "border"))

border_leaf_group(fabric) ==
    SelectSeq(fabric, LAMBDA d : NameContains(d.name, "border_leaf"))

(* Variant: spine-to-leaf connections only *)
fabric_connections_leaf_only(devs, tpls) ==
    LET fabric == fabric_devices(devs, tpls)
        spines_leaves == interface_lists(spine_group(fabric), tpls, {"leaf"})
        leafs == interface_lists(leaf_group(fabric), tpls, {"uplink"})
    IN  pair_up(spines_leaves, leafs, 1, 1, FALSE)

fabric_connections(devs, tpls) ==
    LET fabric == fabric_devices(devs, tpls)
        spines_leaves == interface_lists(spine_group(fabric), tpls, {"leaf"})
        spine_borders == interface_lists(spine_group(fabric), tpls, {"uplink"})
        leafs == interface_lists(leaf_group(fabric), tpls, {"uplink"})
        border_leafs == interface_lists(border_leaf_group(fabric), tpls, {"uplink"})
    IN  pair_up(spines_leaves, leafs, 1, 1, FALSE)
        \o pair_up(spine_borders, border_leafs, 1, 1, FALSE)

connection_endpoints(connections) ==
    {<<connections[k].source, connections[k].source_interface>> :
        k \in DOMAIN connections}
    \cup {<<connections[k].target, connections[k].destination_interface>> :
        k \in DOMAIN connections}

create_fabric_peering ==
    /\ pc = "create_fabric_peering"
    /\ trace' = Append(trace, "create_fabric_peering")
    /\ \E connections \in {fabric_connections(devices, templates)} :
       \E endpoints \in {connection_endpoints(connections)} :
         IF connection_endpoints_exist(interfaces, connections, "InterfacePhysical")
         THEN /\ cables' = cables \o new_cables(connections, "dac-passive")
              /\ interfaces' = {IF /\ i.kind = "InterfacePhysical"
                                    /\ <<i.device, i.name>> \in endpoints
                                 THEN [i EXCEPT !.role = "unnumbered"] ELSE i :
                                    i \in interfaces}
              /\ pc' = NextCall(scenario, "create_fabric_peering")
         ELSE /\ UNCHANGED <<cables, interfaces>>
              /\ pc' = "failed"
    /\ UNCHANGED <<other_vars, data, scenario, templates, store, devices, rack_occupancy,
                   asns, ospf, sessions>>

----------------------------------------------------------------------------
(* Loopbacks                                                               *)

loopback_key(device_name_, loopback_name) ==
    <<"InterfaceVirtual", [device |-> device_name_, name |-> loopback_name]>>

(* create_loopback: one InterfaceVirtual per fabric device, stored under   *)
(* "{device}-{loopback_name}"                                              *)
create_loopback(devs, loopback_name) ==
    {loopback_key(devs[k].name, loopback_name) :
        k \in {j \in DOMAIN devs : devs[j].role \in {"spine", "leaf", "border_leaf", "edge"}}}

create_dual_loopbacks ==
    LET fabric == {k \in DOMAIN devices :
                      devices[k].role \in {"spine", "leaf", "border_leaf", "edge"}}
    IN  /\ pc = "create_dual_loopbacks"
        /\ trace' = Append(trace, "create_dual_loopbacks")
        /\ IF /\ fabric # {}
              /\ \/ <<"CoreIPAddressPool", "loopback_ip_pool">> \notin store
                 \/ <<"CoreIPAddressPool", "loopback-vtep_ip_pool">> \notin store
           THEN /\ store' = store
                /\ pc' = "failed"
           ELSE /\ store' = store \cup create_loopback(devices, "loopback0")
                                  \cup create_loopback(devices, "loopback1")
                /\ pc' = NextCall(scenario, "create_dual_loopbacks")
        /\ UNCHANGED <<other_vars, data, scenario, templates, devices, interfaces, rack_occupancy,
                       cables, asns, ospf, sessions>>

----------------------------------------------------------------------------
(* Routing                                                                 *)

leaf_devices_of(devs) == SelectSeq(devs, LAMBDA d : d.role \in {"leaf", "border_leaf"})

spine_devices_of(devs) == SelectSeq(devs, LAMBDA d : d.role = "spine")

has_loopback(st, device, loopback_name) == loopback_key(device.name, loopback_name) \in st

create_ospf_underlay ==
    LET fabric == SelectSeq(devices,
                            LAMBDA d : d.role \in {"spine", "leaf", "border_leaf"})
    IN  /\ pc = "create_ospf_underlay"
        /\ trace' = Append(trace, "create_ospf_underlay")
        /\ IF \A k \in DOMAIN fabric : has_loopback(store, fabric[k], "loopback0")
           THEN /\ store' = store \cup {<<"RoutingOSPFArea", "UNDERLAY">>}
                /\ ospf' = ospf \cup {fabric[k].name : k \in DOMAIN fabric}
                /\ pc' = NextCall(scenario, "create_ospf_underlay")
           ELSE /\ store' = store \cup {<<"RoutingOSPFArea", "UNDERLAY">>}
                /\ ospf' = ospf
                /\ pc' = "failed"
        /\ UNCHANGED <<other_vars, data, scenario, templates, devices, interfaces, rack_occupancy,
                       cables, asns, sessions>>

spine_asn_key(topology_name) == [tag |-> "SPINE-ASN", owner |-> <<topology_name>>]

(* Variant: one LEAF-ASN key for all leaves *)
leaf_asn_key_shared(device) == [tag |-> "LEAF-ASN", owner |-> << >>]

leaf_asn_key(device) == [tag |-> "LEAF-ASN", owner |-> <<device.name>>]

overlay_asn_key(topology_name) == [tag |-> "OVERLAY-ASN", owner |-> <<topology_name>>]

(* The store keys of the RoutingAutonomousSystem objects, in creation order *)
autonomous_system_keys(scen, topology_name, devs) ==
    IF scen = "ebgp"
    THEN <<spine_asn_key(topology_name)>>
         \o [k \in DOMAIN leaf_devices_of(devs) |-> leaf_asn_key(leaf_devices_of(devs)[k])]
         \o <<overlay_asn_key(topology_name)>>
    ELSE <<overlay_asn_key(topology_name)>>

(* The PRIVATE-ASN4 number pool (4200000000-4294967294) hands out the next *)
(* free number on every allocation.  An ASN is written as its offset from  *)
(* the start of the pool; `allocated` numbers are taken already            *)
allocate_asn(allocated, nth) == allocated + (nth - 1)

create_autonomous_systems ==
    \E keys \in {autonomous_system_keys(scenario, data.name, devices)},
       taken \in {Cardinality(DOMAIN asns)} :
        /\ pc = "create_autonomous_systems"
        /\ trace' = Append(trace, "create_autonomous_systems")
        /\ IF <<"LocationBuilding", data.name>> \in store
           THEN /\ asns' = [key \in DOMAIN asns \cup Range(keys) |->
                              IF key \in Range(keys)
                              THEN allocate_asn(taken,
                                      CHOOSE k \in DOMAIN keys :
                                         /\ keys[k] = key
                                         /\ \A j \in DOMAIN keys : keys[j] = key => j <= k)
                              ELSE asns[key]]
                /\ pc' = NextCall(scenario, "create_autonomous_systems")
           ELSE /\ asns' = asns
                /\ pc' = "failed"
        /\ UNCHANGED <<other_vars, data, scenario, templates, store, devices, interfaces,
                       rack_occupancy, cables, ospf, sessions>>

peer_group_keys(scen) ==
    (IF scen = "ebgp"
     THEN {<<"RoutingBGPPeerGroup", "SPINE-TO-LEAF-UNDERLAY-PG">>,
           <<"RoutingBGPPeerGroup", "LEAF-TO-SPINE-UNDERLAY-PG">>}
     ELSE {})
    \cup {<<"RoutingBGPPeerGroup", "RR-CLIENTS-OVERLAY-PG">>,
          <<"RoutingBGPPeerGroup", "RR-SERVERS-OVERLAY-PG">>}

create_bgp_peer_groups ==
    /\ pc = "create_bgp_peer_groups"
    /\ trace' = Append(trace, "create_bgp_peer_groups")
    /\ store' = store \cup peer_group_keys(scenario)
    /\ pc' = NextCall(scenario, "create_bgp_peer_groups")
    /\ UNCHANGED <<other_vars, data, scenario, templates, devices, interfaces, rack_occupancy,
                   cables, asns, ospf, sessions>>

bgp_session(local, remote, suffix, local_as, remote_as, peer_group, session_type) ==
    [name |-> [local |-> local.name, remote |-> remote.name, suffix |-> suffix],
     device |-> local.name,
     local_as |-> local_as,
     remote_as |-> remote_as,
     peer_group |-> peer_group,
     session_type |-> session_type]

(* for a in outer: for b in inner: the pairs <<a, b>> in loop order *)
nested_loop(outer, inner) ==
    Flatten([i \in DOMAIN outer |-> [j \in DOMAIN inner |-> <<outer[i], inner[j]>>]])

(* Variant: the spine-to-leaf loop only *)
ebgp_underlay_sessions_spine_side(devs, as, topology_name) ==
    LET spine_asn == as[spine_asn_key(topology_name)]
        spine_to_leaf == nested_loop(spine_devices_of(devs), leaf_devices_of(devs))
        spine_sessions ==
            [k \in DOMAIN spine_to_leaf |->
                bgp_session(spine_to_leaf[k][1], spine_to_leaf[k][2], "", spine_asn,
                            as[leaf_asn_key(spine_to_leaf[k][2])],
                            "SPINE-TO-LEAF-UNDERLAY-PG", "EXTERNAL")]
    IN  spine_sessions

ebgp_underlay_sessions(devs, as, topology_name) ==
    LET spine_asn == as[spine_asn_key(topology_name)]
        spine_to_leaf == nested_loop(spine_devices_of(devs), leaf_devices_of(devs))
        leaf_to_spine == nested_loop(leaf_devices_of(devs), spine_devices_of(devs))
        spine_sessions ==
            [k \in DOMAIN spine_to_leaf |->
                bgp_session(spine_to_leaf[k][1], spine_to_leaf[k][2], "", spine_asn,
                            as[leaf_asn_key(spine_to_leaf[k][2])],
                            "SPINE-TO-LEAF-UNDERLAY-PG", "EXTERNAL")]
        leaf_sessions ==
            [k \in DOMAIN leaf_to_spine |->
                bgp_session(leaf_to_spine[k][1], leaf_to_spine[k][2], "",
                            as[leaf_asn_key(leaf_to_spine[k][1])], spine_asn,
                            "LEAF-TO-SPINE-UNDERLAY-PG", "EXTERNAL")]
    IN  spine_sessions \o leaf_sessions

(* The store lookups of a session loop succeed: peer groups, ASNs and the  *)
(* loopbacks of both ends (a loop that never runs looks up no loopback)    *)
session_lookups_ok(st, as, devs, pgs, asn_keys, loopback_names) ==
    /\ \A pg \in pgs : <<"RoutingBGPPeerGroup", pg>> \in st
    /\ \A key \in asn_keys : key \in DOMAIN as
    /\ (leaf_devices_of(devs) # << >> /\ spine_devices_of(devs) # << >>) =>
          \A k \in DOMAIN devs :
              devs[k].role \in {"spine", "leaf", "border_leaf"} =>
                  \A n \in loopback_names : has_loopback(st, devs[k], n)

create_ebgp_underlay ==
    LET leaf_devices == leaf_devices_of(devices)
        asn_keys == {spine_asn_key(data.name)}
                    \cup (IF spine_devices_of(devices) = << >> THEN {}
                          ELSE {leaf_asn_key(leaf_devices[k]) : k \in DOMAIN leaf_devices})
    IN  /\ pc = "create_ebgp_underlay"
        /\ trace' = Append(trace, "create_ebgp_underlay")
        /\ IF session_lookups_ok(store, asns, devices,
                                 {"SPINE-TO-LEAF-UNDERLAY-PG"}
                                   \cup (IF leaf_devices = << >>
                                            \/ spine_devices_of(devices) = << >>
                                         THEN {} ELSE {"LEAF-TO-SPINE-UNDERLAY-PG"}),
                                 asn_keys, {"loopback0"})
           THEN /\ sessions' = sessions \o ebgp_underlay_sessions(devices, asns, data.name)
                /\ pc' = NextCall(scenario, "create_ebgp_underlay")
           ELSE /\ sessions' = sessions
                /\ pc' = "failed"
        /\ UNCHANGED <<other_vars, data, scenario, templates, store, devices, interfaces,
                       rack_occupancy, cables, asns, ospf>>

(* Variant: sessions between every two leaves as well *)
ibgp_overlay_sessions_leaf_mesh(devs, as, topology_name) ==
    LET asn_id == as[overlay_asn_key(topology_name)]
        spine_to_leaf == nested_loop(spine_devices_of(devs), leaf_devices_of(devs))
        leaf_to_spine == nested_loop(leaf_devices_of(devs), leaf_devices_of(devs))
        spine_sessions ==
            [k \in DOMAIN spine_to_leaf |->
                bgp_session(spine_to_leaf[k][1], spine_to_leaf[k][2], "EVPN",
                            asn_id, asn_id, "RR-SERVERS-OVERLAY-PG", "INTERNAL")]
        leaf_sessions ==
            [k \in DOMAIN leaf_to_spine |->
                bgp_session(leaf_to_spine[k][1], leaf_to_spine[k][2], "EVPN",
                            asn_id, asn_id, "RR-CLIENTS-OVERLAY-PG", "INTERNAL")]
    IN  spine_sessions \o leaf_sessions

ibgp_overlay_sessions(devs, as, topology_name) ==
    LET asn_id == as[overlay_asn_key(topology_name)]
        spine_to_leaf == nested_loop(spine_devices_of(devs), leaf_devices_of(devs))
        leaf_to_spine == nested_loop(leaf_devices_of(devs), spine_devices_of(devs))
        spine_sessions ==
            [k \in DOMAIN spine_to_leaf |->
                bgp_session(spine_to_leaf[k][1], spine_to_leaf[k][2], "EVPN",
                            asn_id, asn_id, "RR-SERVERS-OVERLAY-PG", "INTERNAL")]
        leaf_sessions ==
            [k \in DOMAIN leaf_to_spine |->
                bgp_session(leaf_to_spine[k][1], leaf_to_spine[k][2], "EVPN",
                            asn_id, asn_id, "RR-CLIENTS-OVERLAY-PG", "INTERNAL")]
    IN  spine_sessions \o leaf_sessions

create_ibgp_overlay ==
    /\ pc = "create_ibgp_overlay"
    /\ trace' = Append(trace, "create_ibgp_overlay")
    /\ IF session_lookups_ok(store, asns, devices,
                             {"RR-CLIENTS-OVERLAY-PG", "RR-SERVERS-OVERLAY-PG"},
                             {overlay_asn_key(data.name)}, {"loopback0", "loopback1"})
       THEN /\ sessions' = sessions \o ibgp_overlay_sessions(devices, asns, data.name)
            /\ pc' = NextCall(scenario, "create_ibgp_overlay")
       ELSE /\ sessions' = sessions
            /\ pc' = "failed"
    /\ UNCHANGED <<other_vars, data, scenario, templates, store, devices, interfaces,
                   rack_occupancy, cables, asns, ospf>>

----------------------------------------------------------------------------
(* Specifications                                                          *)

Blank(d) ==
    /\ data = d
    /\ pc = "load_data"
    /\ trace = << >>
    /\ scenario = ""
    /\ templates = << >>
    /\ store = {}
    /\ devices = << >>
    /\ interfaces = {}
    /\ rack_occupancy = << >>
    /\ cables = << >>
    /\ asns = << >>
    /\ ospf = {}
    /\ sessions = << >>
    /\ NoOther

(* A run of generate() on a design of 1U devices: any strategy, any number *)
(* of ports per template range, any number of devices of each role         *)
Init ==
    \E strategy \in Strategies, ports \in 0..MaxPorts :
      \E leaf \in ElementChoices("leaf", MaxLeaf, {1}, ports),
         spine \in ElementChoices("spine", MaxSpine, {1}, ports),
         border \in ElementChoices("border_leaf", MaxBorder, {1}, ports),
         console \in ElementChoices("console", MaxConsole, {1}, ports),
         oob \in ElementChoices("oob", MaxOob, {1}, ports) :
        Blank(Design(strategy, leaf \o spine \o border \o console \o oob))

Next ==
    \/ load_data
    \/ create_site
    \/ create_location_hierarchy
    \/ create_racks
    \/ create_pools
    \/ create_devices
    \/ assign_devices_to_racks
    \/ create_oob_connections("management")
    \/ create_oob_connections("console")
    \/ create_fabric_peering
    \/ create_dual_loopbacks
    \/ create_ospf_underlay
    \/ create_autonomous_systems
    \/ create_bgp_peer_groups
    \/ create_ebgp_underlay
    \/ create_ibgp_overlay

Spec == Init /\ [][Next]_vars

----------------------------------------------------------------------------
(* Rack assignment on its own: the state in which generate() calls         *)
(* assign_devices_to_racks, for designs whose device types have any height *)

AtRackAssignment(d) ==
    \E created \in {stored_devices(device_entries(d))},
       tpls \in {expanded_templates(d)} :
        /\ data = d
        /\ pc = "assign_devices_to_racks"
        /\ trace = <<"load_data", "create_site", "create_location_hierarchy",
                     "create_racks", "create_pools", "create_devices">>
        /\ scenario = detect_scenario(d)
        /\ templates = tpls
        /\ devices = created
        /\ interfaces = UNION {device_interfaces(created[k], tpls) :
                                  k \in DOMAIN created}
        /\ store =
              {<<"CoreStandardGroup", d.design.elements[k].role>> :
                  k \in DOMAIN d.design.elements}
              \cup {<<"CoreObjectTemplate",
                      d.design.elements[k].template.template_name>> :
                  k \in DOMAIN d.design.elements}
              \cup {<<"LocationBuilding", d.name>>, <<"LocationPod", "Pod-1">>,
                    <<"LocationRow", "Row-1">>}
              \cup {<<"LocationRack", i>> : i \in 1..num_leafs(d)}
              \cup {<<"CoreIPAddressPool", "management_ip_pool">>,
                    <<"CoreIPAddressPool", "loopback_ip_pool">>,
                    <<"CoreIPAddressPool", "loopback-vtep_ip_pool">>,
                    <<"CoreNumberPool", "VLAN-POOL">>}
              \cup {<<"DcimGenericDevice", created[k].name>> :
                  k \in DOMAIN created}
        /\ rack_occupancy = << >>
        /\ cables = << >>
        /\ asns = << >>
        /\ ospf = {}
        /\ sessions = << >>
        /\ NoOther
    /\ NoOther

InitRack ==
    \E leaf \in ElementChoices("leaf", MaxLeaf, 1..MaxHeight, 1),
       spine \in ElementChoices("spine", MaxSpine, 1..MaxHeight, 1),
       border \in ElementChoices("border_leaf", MaxBorder, 1..MaxHeight, 1),
       console \in ElementChoices("console", MaxConsole, 1..MaxHeight, 1),
       oob \in ElementChoices("oob", MaxOob, 1..MaxHeight, 1) :
        AtRackAssignment(Design("ospf", leaf \o spine \o border \o console \o oob))

NextRack == assign_devices_to_racks

SpecRack == InitRack /\ [][NextRack]_vars

(* The states SpecRack starts in are the states a run of generate() is in  *)
(* when it calls assign_devices_to_racks                                   *)
RackInitReached == pc = "assign_devices_to_racks" => AtRackAssignment(data)

----------------------------------------------------------------------------
(* Device creation on its own: the state in which generate() calls         *)
(* create_devices, for designs of several elements that may share a role   *)

DesignNamed(name, strategy, elements) ==
    [Design(strategy, elements) EXCEPT !.name = name]

AtCreateDevices(d) ==
    /\ data = d
    /\ pc = "create_devices"
    /\ trace = <<"load_data", "create_site", "create_location_hierarchy",
                 "create_racks", "create_pools">>
    /\ scenario = detect_scenario(d)
    /\ templates = expanded_templates(d)
    /\ devices = << >>
    /\ interfaces = {}
    /\ store =
          {<<"CoreStandardGroup", d.design.elements[k].role>> :
              k \in DOMAIN d.design.elements}
          \cup {<<"CoreObjectTemplate", d.design.elements[k].template.template_name>> :
              k \in DOMAIN d.design.elements}
          \cup {<<"LocationBuilding", d.name>>, <<"LocationPod", "Pod-1">>,
                <<"LocationRow", "Row-1">>}
          \cup {<<"LocationRack", i>> : i \in 1..num_leafs(d)}
          \cup {<<"CoreIPAddressPool", "management_ip_pool">>,
                <<"CoreIPAddressPool", "loopback_ip_pool">>,
                <<"CoreIPAddressPool", "loopback-vtep_ip_pool">>,
                <<"CoreNumberPool", "VLAN-POOL">>}
    /\ rack_occupancy = << >>
    /\ cables = << >>
    /\ asns = << >>
    /\ ospf = {}
    /\ sessions = << >>
    /\ NoOther

(* Sequences of 0..n elements, each of one of the roles with 1..MaxQuantity *)
(* devices                                                                 *)
RECURSIVE ElementLists(_)
ElementLists(n) ==
    IF n = 0 THEN {<< >>}
    ELSE LET shorter == ElementLists(n - 1)
         IN  shorter \cup
             {els \o <<Element(role, q, 1, 1)>> :
                 els \in {e \in shorter : Len(e) = n - 1},
                 role \in {"leaf", "spine"},
                 q \in 1..MaxQuantity}

InitNames ==
    \E name \in {"dc1", "DC1"}, elements \in ElementLists(MaxElements) :
        AtCreateDevices(DesignNamed(name, "ospf", elements))

NextNames == create_devices

SpecNames == InitNames /\ [][NextNames]_vars

(* The states SpecNames starts in are the states a run of generate() is in *)
(* when it calls create_devices                                            *)
NamesInitReached == pc = "create_devices" => AtCreateDevices(data)

----------------------------------------------------------------------------
(* Helper functions called on their own                                    *)

(* No generator is running *)
NoGenerator ==
    /\ pc = "idle"
    /\ trace = << >>
    /\ data = << >>
    /\ scenario = ""
    /\ templates = << >>
    /\ store = {}
    /\ devices = << >>
    /\ interfaces = {}
    /\ rack_occupancy = << >>
    /\ cables = << >>
    /\ asns = << >>
    /\ ospf = {}
    /\ sessions = << >>

(* The copy of expand_interface_range in the transforms *)
transforms_RANGE_PATTERN_search(interface_name) ==
    /\ interface_name.bracket # << >>
    /\ \/ Len(interface_name.bracket) >= 2
       \/ Len(interface_name.bracket[1]) >= 2

RECURSIVE transforms_expand_parts(_, _, _)
transforms_expand_parts(interface_name, parts, expanded) ==
    IF parts = << >>
    THEN Returned(IF expanded # << >> THEN expanded ELSE <<interface_name>>)
    ELSE LET part == Head(parts)
             prefix == interface_name.base
             suffix == interface_name.suffix
         IN  IF Len(part) >= 2
             THEN IF Len(part) # 2
                  THEN Raised("ValueError")
                  ELSE IF part[1].isdigit /\ part[2].isdigit
                  THEN transforms_expand_parts(interface_name, Tail(parts),
                           expanded \o
                           [i \in 1..(part[2].value - part[1].value + 1) |->
                              InterfaceName(prefix, part[1].value + i - 1, suffix)])
                  ELSE Returned(<<interface_name>>)
             ELSE IF part[1].isdigit
             THEN transforms_expand_parts(interface_name, Tail(parts),
                      Append(expanded, InterfaceName(prefix, part[1].value, suffix)))
             ELSE Returned(<<interface_name>>)

transforms_expand_interface_range(interface_name) ==
    IF ~transforms_RANGE_PATTERN_search(interface_name)
    THEN Returned(<<interface_name>>)
    ELSE transforms_expand_parts(interface_name, interface_name.bracket, << >>)

(* The fields a bracket part is made of: numbers and a word that is no     *)
(* number                                                                  *)
Fields == {DigitField(n) : n \in 1..MaxNumber} \cup {OtherField}

(* The parts between the commas: "n", "a-b", and one part with two dashes *)
Parts ==
    {<<f>> : f \in Fields}
    \cup {<<f, g>> : f \in Fields, g \in Fields}
    \cup {<<DigitField(1), DigitField(2), DigitField(3)>>}

RECURSIVE Brackets(_)
Brackets(n) ==
    IF n = 0 THEN {<< >>}
    ELSE Brackets(n - 1)
         \cup {Append(b, p) : b \in {c \in Brackets(n - 1) : Len(c) = n - 1},
                              p \in Parts}

(* Interface names with and without a bracket, with and without a suffix *)
InterfaceNames ==
    {BracketName("Ethernet", bracket, suffix) :
        bracket \in Brackets(MaxParts), suffix \in {"", "/1"}}
    \cup {InterfaceName("Ethernet", n, "") : n \in 1..MaxNumber}

InitExpand ==
    /\ NoGenerator
    /\ NoScript
    /\ arg \in {[fn |-> "expand_interface_range", value |-> name] :
                   name \in InterfaceNames}
    /\ result = << >>

call_generators_expand_interface_range ==
    /\ arg.fn = "expand_interface_range"
    /\ "generators" \notin DOMAIN result
    /\ result' = result @@ ("generators" :> expand_interface_range(arg.value))
    /\ UNCHANGED <<generator_vars, script_vars, arg>>

call_transforms_expand_interface_range ==
    /\ arg.fn = "expand_interface_range"
    /\ "transforms" \notin DOMAIN result
    /\ result' = result @@ ("transforms" :> transforms_expand_interface_range(arg.value))
    /\ UNCHANGED <<generator_vars, script_vars, arg>>

NextExpand ==
    \/ call_generators_expand_interface_range
    \/ call_transforms_expand_interface_range

SpecExpand == InitExpand /\ [][NextExpand]_vars

----------------------------------------------------------------------------
(* clean_data: the three copies                                            *)

(* Python values of a query response: None, numbers, booleans and strings  *)
(* by their text, lists, and dictionaries as functions of their keys       *)
Prim(v) == [t |-> "prim", v |-> v]

List(elems) == [t |-> "list", elems |-> elems]

Dict(entries) == [t |-> "dict", entries |-> entries]

None == Prim("None")

Number(n) == [t |-> "int", n |-> n]

(* An AttributeError on its way out of the call *)
AttributeError == [t |-> "raised", v |-> "AttributeError"]

(* bool(x): None, 0, False, "", [] and {} are false *)
truthy(x) ==
    CASE x.t = "prim" -> x.v \notin {"None", "0", "False", ""}
      [] x.t = "list" -> x.elems # << >>
      [] x.t = "dict" -> DOMAIN x.entries # {}
      [] x.t = "int" -> x.n # 0
      [] OTHER -> TRUE

(* value.get(key), value.get(key, default) *)
get(d, key, default) == IF key \in DOMAIN d.entries THEN d.entries[key] ELSE default

(* "__" in key, key.replace("__", "") *)
has_double_underscore(key) == key \in {"a__b"}

without_double_underscore(key) == IF key = "a__b" THEN "ab" ELSE key

(* The exception of a part is the exception of the whole *)
dict_of(entries) ==
    IF \E k \in DOMAIN entries : entries[k] = AttributeError
    THEN AttributeError ELSE Dict(entries)

list_of(elems) ==
    IF \E i \in DOMAIN elems : elems[i] = AttributeError
    THEN AttributeError ELSE List(elems)

(* The key a dictionary entry is stored under *)
result_key(key, value) ==
    IF value.t # "dict" /\ has_double_underscore(key)
    THEN without_double_underscore(key) ELSE key

source_key(d, new_key) ==
    CHOOSE k \in DOMAIN d.entries : result_key(k, d.entries[k]) = new_key

(* generators/common.py *)
RECURSIVE clean_data(_)
clean_data(response) ==
    IF response.t = "dict"
    THEN dict_of([new_key \in {result_key(k, response.entries[k]) : k \in DOMAIN response.entries} |->
             LET key == source_key(response, new_key)
                 value == response.entries[key]
             IN  IF value.t = "dict"
                 THEN IF truthy(get(value, "value", None)) THEN value.entries["value"]
                      ELSE IF truthy(get(value, "node", None))
                           THEN clean_data(value.entries["node"])
                      ELSE IF truthy(get(value, "edges", None))
                           THEN clean_data(value.entries["edges"])
                      ELSE IF ~truthy(get(value, "value", None)) THEN None
                      ELSE clean_data(value)
                 ELSE IF has_double_underscore(key) THEN value
                 ELSE clean_data(value)])
    ELSE IF response.t = "list"
    THEN list_of([i \in DOMAIN response.elems |->
             LET item == response.elems[i]
             IN  IF item.t = "dict" /\ get(item, "node", None) # None
                 THEN clean_data(item.entries["node"])
                 ELSE clean_data(item)])
    ELSE response

(* checks/common.py *)
RECURSIVE checks_clean_data(_)
checks_clean_data(response) ==
    IF response.t = "dict"
    THEN dict_of([new_key \in {result_key(k, response.entries[k]) : k \in DOMAIN response.entries} |->
             LET key == source_key(response, new_key)
                 value == response.entries[key]
                 keys == IF value.t = "dict" THEN DOMAIN value.entries ELSE {}
             IN  IF value.t = "dict"
                 THEN IF keys = {"value"} THEN value.entries["value"]
                      ELSE IF keys = {"edges"} /\ ~truthy(value.entries["edges"])
                           THEN List(<< >>)
                      ELSE IF "node" \in keys
                           THEN checks_clean_data(value.entries["node"])
                      ELSE IF "edges" \in keys
                           THEN checks_clean_data(value.entries["edges"])
                      ELSE checks_clean_data(value)
                 ELSE IF has_double_underscore(key) THEN value
                 ELSE checks_clean_data(value)])
    ELSE IF response.t = "list"
    THEN list_of([i \in DOMAIN response.elems |->
             LET item == response.elems[i]
             IN  IF item.t # "dict" THEN AttributeError  \* item.get
                 ELSE checks_clean_data(get(item, "node", item))])
    ELSE response

(* transforms/common.py *)
RECURSIVE transforms_clean_data(_)
transforms_clean_data(response) ==
    IF response.t = "dict"
    THEN dict_of([new_key \in {result_key(k, response.entries[k]) : k \in DOMAIN response.entries} |->
             LET key == source_key(response, new_key)
                 value == response.entries[key]
                 keys == IF value.t = "dict" THEN DOMAIN value.entries ELSE {}
             IN  IF value.t = "dict"
                 THEN IF keys = {"value"} THEN value.entries["value"]
                      ELSE IF keys = {"edges"} /\ ~truthy(value.entries["edges"])
                           THEN List(<< >>)
                      ELSE IF "node" \in keys
                           THEN transforms_clean_data(value.entries["node"])
                      ELSE IF "edges" \in keys
                           THEN transforms_clean_data(value.entries["edges"])
                      ELSE transforms_clean_data(value)
                 ELSE IF has_double_underscore(key) THEN value
                 ELSE transforms_clean_data(value)])
    ELSE IF response.t = "list"
    THEN list_of([i \in DOMAIN response.elems |->
             LET item == response.elems[i]
             IN  IF item.t # "dict" THEN AttributeError
                 ELSE transforms_clean_data(get(item, "node", item))])
    ELSE response

(* Responses: every value nested MaxDepth deep over a few primitives and   *)
(* keys, with lists of at most one item                                    *)
Primitives == {Prim("None"), Prim("0"), Prim("foo")}

Keys == {"value", "node", "edges", "name"}

RECURSIVE Values(_)
Values(n) ==
    IF n = 0 THEN Primitives
    ELSE LET lower == Values(n - 1)
         IN  lower
             \cup {Dict(k :> x) : k \in Keys, x \in lower}
             \cup {List(<< >>)}
             \cup {List(<<x>>) : x \in lower}

(* Further responses: an aliased key, a wrapper with a second key, a list  *)
(* of two edges                                                            *)
Samples ==
    {Dict("a__b" :> x) : x \in Values(1)}
    \cup {Dict("name" :> Dict(("value" :> x) @@ ("name" :> y))) :
            x \in Primitives, y \in Primitives}
    \cup {Dict("name" :> Dict("edges" :> List(<<Dict("node" :> x), Dict("node" :> y)>>))) :
            x \in Values(1), y \in Values(1)}

Responses == Values(MaxDepth) \cup Samples

InitClean ==
    /\ NoGenerator
    /\ NoScript
    /\ arg \in {[fn |-> "clean_data", value |-> response] : response \in Responses}
    /\ result = << >>

call_generators_clean_data ==
    /\ arg.fn = "clean_data"
    /\ "generators" \notin DOMAIN result
    /\ result' = result @@ ("generators" :> clean_data(arg.value))
    /\ UNCHANGED <<generator_vars, script_vars, arg>>

call_checks_clean_data ==
    /\ arg.fn = "clean_data"
    /\ "checks" \notin DOMAIN result
    /\ result' = result @@ ("checks" :> checks_clean_data(arg.value))
    /\ UNCHANGED <<generator_vars, script_vars, arg>>

call_transforms_clean_data ==
    /\ arg.fn = "clean_data"
    /\ "transforms" \notin DOMAIN result
    /\ result' = result @@ ("transforms" :> transforms_clean_data(arg.value))
    /\ UNCHANGED <<generator_vars, script_vars, arg>>

NextClean ==
    \/ call_generators_clean_data
    \/ call_checks_clean_data
    \/ call_transforms_clean_data

SpecClean == InitClean /\ [][NextClean]_vars

----------------------------------------------------------------------------
(* Network segments: the segment generator and get_vlans of the transforms *)

(* A service attached to an interface, as the query returns it *)
Service(typename, vlan_id, name) ==
    [typename |-> typename, vlan_id |-> vlan_id, name |-> name]

(* NetworkSegmentGenerator.generate up to the VxLAN parameters it logs *)
generate_segment(segment) ==
    IF ~truthy(segment.vlan_id) THEN [skipped |-> TRUE]
    ELSE [skipped |-> FALSE,
          vlan_id |-> segment.vlan_id.n,
          vni |-> segment.vlan_id.n + 10000,
          rd |-> Digits(segment.vlan_id.n)]

(* Variant: a VLAN ID seen before gets a further entry *)
new_vlan_every_time(vlans, vlan_id) == vlan_id # None

(* vlan_id is not None and vlan_id not in vlans *)
new_vlan(vlans, vlan_id) ==
    /\ vlan_id # None
    /\ \A k \in DOMAIN vlans : vlans[k].vlan_id # vlan_id.n

(* The two loops of get_vlans over the segments in the order met, `vlans`  *)
(* as the dictionary's values in insertion order                           *)
RECURSIVE collect_vlans(_, _)
collect_vlans(segments, vlans) ==
    IF segments = << >> THEN vlans
    ELSE LET segment == Head(segments)
             vlan_id == segment.vlan_id
         IN  IF segment.typename = "ServiceNetworkSegment" /\ new_vlan(vlans, vlan_id)
             THEN collect_vlans(Tail(segments),
                      Append(vlans, [vlan_id |-> vlan_id.n,
                                     name |-> segment.name,
                                     vni |-> vlan_id.n + 10000,
                                     rd |-> Digits(vlan_id.n)]))
             ELSE collect_vlans(Tail(segments), vlans)

get_vlans(ifaces) ==
    collect_vlans(Flatten([i \in DOMAIN ifaces |-> ifaces[i].interface_services]),
                  << >>)

(* VLAN IDs 100, 200, ..., 0, and no VLAN ID *)
VlanIds == {None, Number(0)} \cup {Number(100 * v) : v \in 1..MaxVlan}

Services ==
    {Service("ServiceNetworkSegment", vlan_id, name) :
        vlan_id \in VlanIds, name \in {"web", "db"}}
    \cup {Service("ServiceOspf", None, "ospf")}

RECURSIVE ServiceLists(_)
ServiceLists(n) ==
    IF n = 0 THEN {<< >>}
    ELSE ServiceLists(n - 1)
         \cup {Append(l, s) : l \in {m \in ServiceLists(n - 1) : Len(m) = n - 1},
                              s \in Services}

(* Two interfaces that carry at most MaxServices services together *)
InterfaceData ==
    UNION {{<<[interface_services |-> first], [interface_services |-> second]>> :
               second \in ServiceLists(MaxServices - Len(first))} :
           first \in ServiceLists(MaxServices)}

InitVlans ==
    /\ NoGenerator
    /\ NoScript
    /\ arg \in {[fn |-> "vlans", value |-> ifaces] : ifaces \in InterfaceData}
    /\ result = << >>

(* The segment generator runs for one of the segments *)
call_generate_segment ==
    /\ arg.fn = "vlans"
    /\ "generators" \notin DOMAIN result
    /\ \E i \in DOMAIN arg.value :
         \E j \in DOMAIN arg.value[i].interface_services :
            LET segment == arg.value[i].interface_services[j]
            IN  /\ segment.typename = "ServiceNetworkSegment"
                /\ result' = result @@
                      ("generators" :> [segment |-> segment,
                                        logged |-> generate_segment(segment)])
    /\ UNCHANGED <<generator_vars, script_vars, arg>>

call_get_vlans ==
    /\ arg.fn = "vlans"
    /\ "transforms" \notin DOMAIN result
    /\ result' = result @@ ("transforms" :> get_vlans(arg.value))
    /\ UNCHANGED <<generator_vars, script_vars, arg>>

NextVlans ==
    \/ call_generate_segment
    \/ call_get_vlans

SpecVlans == InitVlans /\ [][NextVlans]_vars

----------------------------------------------------------------------------
(* scripts/bootstrap.py                                                    *)

(* check_infrahub_ready(max_retries: int = 30, ...) *)
DEFAULT_MAX_RETRIES == 30

(* wait_for_repository_sync(120) *)
REPOSITORY_SYNC_SECONDS == 120

(* What requests.get meets: a status code, or a RequestException *)
SchemaResponses == {"200", "404", "503", "ConnectionError", "Timeout"}

(* The commands of the `steps` list of main, in order *)
steps ==
    <<"schema load schemas", "menu load menus/menu-full.yml",
      "object load objects/bootstrap/", "object load objects/security/",
      "python scripts/create_users_roles.py">>

Bootstrap(caller, max_retries, git_local) ==
    [name |-> "bootstrap", caller |-> caller, pc |-> "for attempt",
     max_retries |-> max_retries, attempt |-> 0, response |-> "",
     ready |-> "", git_local |-> git_local, step |-> 1, waited |-> 0,
     exit_code |-> 0]

(* Variant: one attempt more than max_retries *)
more_attempts_inclusive(attempt, max_retries) == attempt <= max_retries

(* for attempt in range(max_retries) *)
more_attempts(attempt, max_retries) == attempt < max_retries

(* check_infrahub_ready has returned: to its caller, and in main to         *)
(* `if not check_infrahub_ready(): return 1`                                *)
returned_ready(s, ready) ==
    IF s.caller = "main"
    THEN IF ready THEN [s EXCEPT !.ready = "True", !.pc = "steps"]
         ELSE [s EXCEPT !.ready = "False", !.pc = "exit", !.exit_code = 1]
    ELSE [s EXCEPT !.ready = IF ready THEN "True" ELSE "False", !.pc = "returned"]

(* The head of the retry loop *)
for_attempt ==
    /\ script.name = "bootstrap"
    /\ script.pc = "for attempt"
    /\ script' = IF more_attempts(script.attempt, script.max_retries)
                 THEN [script EXCEPT !.pc = "requests.get"]
                 ELSE returned_ready(script, FALSE)
    /\ UNCHANGED <<generator_vars, helper_vars, platform>>

(* requests.get(".../api/schema", timeout=2) and the test of its status *)
requests_get ==
    /\ script.name = "bootstrap"
    /\ script.pc = "requests.get"
    /\ \E response \in SchemaResponses :
          script' = IF response = "200"
                    THEN returned_ready([script EXCEPT !.response = response], TRUE)
                    ELSE [script EXCEPT !.response = response, !.pc = "time.sleep"]
    /\ UNCHANGED <<generator_vars, helper_vars, platform>>

(* progress.update(task, advance=1); time.sleep(sleep_time) *)
time_sleep ==
    /\ script.name = "bootstrap"
    /\ script.pc = "time.sleep"
    /\ script' = [script EXCEPT !.attempt = @ + 1, !.pc = "for attempt"]
    /\ UNCHANGED <<generator_vars, helper_vars, platform>>

(* Variant: a failed command counts as run *)
run_command_always_true(returncode) == TRUE

(* run_command: subprocess.run(..., check=True) raises CalledProcessError *)
(* on a non-zero exit status                                              *)
run_command(returncode) == returncode = 0

(* One iteration of `for i, step_info in enumerate(steps)` *)
run_step ==
    /\ script.name = "bootstrap"
    /\ script.pc = "steps"
    /\ \E returncode \in {0, 1} :
          /\ platform' = Append(platform, [command |-> steps[script.step],
                                           returncode |-> returncode,
                                           output |-> ""])
          /\ script' = IF ~run_command(returncode)
                       THEN [script EXCEPT !.pc = "exit", !.exit_code = 1]
                       ELSE IF script.step < Len(steps)
                       THEN [script EXCEPT !.step = @ + 1]
                       ELSE [script EXCEPT !.pc = "add repository"]
    /\ UNCHANGED <<generator_vars, helper_vars>>

(* [6/7]: the repository file is loaded; its exit status only chooses the  *)
(* message                                                                 *)
add_repository ==
    /\ script.name = "bootstrap"
    /\ script.pc = "add repository"
    /\ \E outcome \in {[returncode |-> 0, output |-> ""],
                        [returncode |-> 1, output |-> "already exists"],
                        [returncode |-> 1, output |-> "connection refused"]} :
          platform' = Append(platform,
              [command |-> IF script.git_local
                           THEN "object load objects/git-repo/local-dev.yml"
                           ELSE "object load objects/git-repo/github.yml",
               returncode |-> outcome.returncode,
               output |-> outcome.output])
    /\ script' = [script EXCEPT !.pc = "wait_for_repository_sync"]
    /\ UNCHANGED <<generator_vars, helper_vars>>

wait_for_repository_sync ==
    /\ script.name = "bootstrap"
    /\ script.pc = "wait_for_repository_sync"
    /\ script' = [script EXCEPT !.waited = REPOSITORY_SYNC_SECONDS,
                                !.pc = "load event actions"]
    /\ UNCHANGED <<generator_vars, helper_vars, platform>>

(* [7/7]: events_loaded only chooses the message; then return 0 *)
load_event_actions ==
    /\ script.name = "bootstrap"
    /\ script.pc = "load event actions"
    /\ \E returncode \in {0, 1} :
          platform' = Append(platform, [command |-> "object load objects/events/",
                                        returncode |-> returncode,
                                        output |-> ""])
    /\ script' = [script EXCEPT !.pc = "exit", !.exit_code = 0]
    /\ UNCHANGED <<generator_vars, helper_vars>>

(* python scripts/bootstrap.py *)
InitBootstrap ==
    /\ NoGenerator
    /\ NoHelper
    /\ \E git_local \in BOOLEAN :
          script = Bootstrap("main", DEFAULT_MAX_RETRIES, git_local)
    /\ platform = << >>

NextBootstrap ==
    \/ for_attempt
    \/ requests_get
    \/ time_sleep
    \/ run_step
    \/ add_repository
    \/ wait_for_repository_sync
    \/ load_event_actions

SpecBootstrap == InitBootstrap /\ [][NextBootstrap]_vars

(* check_infrahub_ready(max_retries) called on its own *)
InitReady ==
    /\ NoGenerator
    /\ NoHelper
    /\ \E max_retries \in 0..MaxRetries :
          script = Bootstrap("caller", max_retries, FALSE)
    /\ platform = << >>

NextReady ==
    \/ for_attempt
    \/ requests_get
    \/ time_sleep

SpecReady == InitReady /\ [][NextReady]_vars

(* requests.get returns within its timeout and time.sleep returns *)
FairSpecReady == SpecReady /\ WF_vars(NextReady)

----------------------------------------------------------------------------
(* scripts/create_users_roles.py                                           *)
(* The platform is the list of its account objects in creation order; the  *)
(* id of an object is its place in the list.                               *)

PermissionData(namespace, name, action, decision) ==
    [namespace |-> namespace, name |-> name, action |-> action, decision |-> decision]

(* permissions_to_create; a global permission has no namespace and name *)
permissions_to_create ==
    <<[kind |-> "CoreObjectPermission", data |-> PermissionData("*", "*", "view", 6)],
      [kind |-> "CoreObjectPermission", data |-> PermissionData("*", "*", "create", 1)],
      [kind |-> "CoreObjectPermission", data |-> PermissionData("*", "*", "update", 1)],
      [kind |-> "CoreObjectPermission", data |-> PermissionData("*", "*", "delete", 1)],
      [kind |-> "CoreObjectPermission", data |-> PermissionData("*", "*", "any", 6)],
      [kind |-> "CoreGlobalPermission", data |-> PermissionData("", "", "manage_schema", 6)],
      [kind |-> "CoreGlobalPermission",
       data |-> PermissionData("", "", "review_proposed_change", 6)]>>

(* An identifier string by its parts between the colons *)
GlobalIdentifier(action, decision) ==
    [scope |-> "global", namespace |-> "", name |-> "", action |-> action,
     decision |-> decision]

ObjectIdentifier(namespace, name, action, decision) ==
    [scope |-> "object", namespace |-> namespace, name |-> name, action |-> action,
     decision |-> decision]

roles_config ==
    <<[name |-> "read-only-role",
       permissions |-> <<ObjectIdentifier("*", "*", "view", "allow_all"),
                         ObjectIdentifier("*", "*", "create", "deny"),
                         ObjectIdentifier("*", "*", "update", "deny"),
                         ObjectIdentifier("*", "*", "delete", "deny")>>],
      [name |-> "schema-reviewer-role",
       permissions |-> <<GlobalIdentifier("manage_schema", "allow_all"),
                         GlobalIdentifier("review_proposed_change", "allow_all"),
                         GlobalIdentifier("edit_default_branch", "allow_all"),
                         ObjectIdentifier("*", "*", "any", "allow_all")>>]>>

groups_config ==
    <<[name |-> "read-only-users", roles |-> <<"read-only-role">>],
      [name |-> "schema-reviewers", roles |-> <<"schema-reviewer-role">>]>>

users_config ==
    <<[name |-> "emma", groups |-> <<"read-only-users">>],
      [name |-> "otto", groups |-> <<"schema-reviewers">>]>>

(* The identifier ensure_permissions_exist builds from kind and data *)
identifier_of(kind, permission) ==
    IF kind = "CoreGlobalPermission"
    THEN GlobalIdentifier(permission.action, "allow_all")
    ELSE ObjectIdentifier(permission.namespace, permission.name, permission.action,
                          IF permission.decision = 1 THEN "deny" ELSE "allow_all")

(* decision_map.get(decision_str, 6) of find_permission_by_identifier *)
decision_value(decision_str) ==
    CASE decision_str = "deny" -> 1
      [] decision_str = "allow_default" -> 2
      [] decision_str = "allow_other" -> 4
      [] OTHER -> 6

(* The ids the query of find_permission_by_identifier matches *)
permission_edges(objects, identifier) ==
    {id \in DOMAIN objects :
        IF identifier.scope = "global"
        THEN /\ objects[id].kind = "CoreGlobalPermission"
             /\ objects[id].key.action = identifier.action
             /\ objects[id].key.decision = decision_value(identifier.decision)
        ELSE /\ objects[id].kind = "CoreObjectPermission"
             /\ objects[id].key.namespace = identifier.namespace
             /\ objects[id].key.name = identifier.name
             /\ objects[id].key.action = identifier.action
             /\ objects[id].key.decision = decision_value(identifier.decision)}

(* edges[0]["node"]["id"], or None (0) *)
first_id(edges) == IF edges = {} THEN 0 ELSE MinOf(edges)

find_permission_by_identifier(objects, identifier) ==
    first_id(permission_edges(objects, identifier))

(* Variant: the query for an object by its name finds nothing *)
name_edges_none(objects, kind, name) == {}

(* The ids the query `kind(name__value: name)` matches *)
name_edges(objects, kind, name) ==
    {id \in DOMAIN objects : objects[id].kind = kind /\ objects[id].key.name = name}

Named(name) == [name |-> name]

Object(kind, key, links) == [kind |-> kind, key |-> key, links |-> links]

RbacScript(run, failures) ==
    [name |-> "create_users_roles", pc |-> "ensure_permissions_exist", index |-> 1,
     role_ids |-> << >>, group_ids |-> << >>, exit_code |-> 0,
     run |-> run, failures |-> failures, raised |-> FALSE, swallowed |-> FALSE,
     start |-> platform, steps |-> << >>, ensured |-> {}]

(* The next loop, or the next function of main, or `return 0` *)
rbac_next(s, list, following) ==
    IF s.index < Len(list) THEN [s EXCEPT !.index = @ + 1]
    ELSE IF following = "exit" THEN [s EXCEPT !.pc = "exit", !.exit_code = 0]
    ELSE [s EXCEPT !.pc = following, !.index = 1]

(* `except Exception` of main: return 1 *)
rbac_raise(s) ==
    [s EXCEPT !.pc = "exit", !.exit_code = 1, !.raised = TRUE, !.failures = @ + 1]

rbac_step(s, step) == [s EXCEPT !.steps = Append(@, step)]

(* One iteration of the loop of ensure_permissions_exist *)
ensure_permissions_exist ==
    /\ script.name = "create_users_roles"
    /\ script.pc = "ensure_permissions_exist"
    /\ LET todo == permissions_to_create[script.index]
           identifier == identifier_of(todo.kind, todo.data)
           existing == find_permission_by_identifier(platform, identifier)
           s == rbac_step(script, "permissions")
       IN  \/ /\ existing # 0
              /\ platform' = platform
              /\ script' = rbac_next([s EXCEPT !.ensured = @ \cup {existing}],
                                     permissions_to_create, "create_roles")
           \/ /\ existing = 0
              /\ platform' = Append(platform, Object(todo.kind, todo.data, {}))
              /\ script' = rbac_next([s EXCEPT !.ensured = @ \cup {Len(platform) + 1}],
                                     permissions_to_create, "create_roles")
           \/ \* client.create or save raises: printed, the loop goes on
              /\ existing = 0
              /\ script.failures < MaxFailures
              /\ platform' = platform
              /\ script' = rbac_next([s EXCEPT !.swallowed = TRUE, !.failures = @ + 1],
                                     permissions_to_create, "create_roles")
           \/ \* the query raises
              /\ script.failures < MaxFailures
              /\ platform' = platform
              /\ script' = rbac_raise(s)
    /\ UNCHANGED <<generator_vars, helper_vars>>

(* The permissions of a role that are found, in the order listed *)
permission_ids(objects, permission_identifiers) ==
    {find_permission_by_identifier(objects, permission_identifiers[k]) :
        k \in DOMAIN permission_identifiers} \ {0}

(* One iteration of the loop of create_roles *)
create_roles ==
    /\ script.name = "create_users_roles"
    /\ script.pc = "create_roles"
    /\ LET config == roles_config[script.index]
           edges == name_edges(platform, "CoreAccountRole", config.name)
           s == rbac_step(script, "roles")
       IN  \/ /\ edges # {}
              /\ platform' = platform
              /\ script' = rbac_next(
                    [s EXCEPT !.role_ids = @ @@ (config.name :> first_id(edges))],
                    roles_config, "create_groups")
           \/ /\ edges = {}
              /\ platform' = Append(platform,
                    Object("CoreAccountRole", Named(config.name),
                           permission_ids(platform, config.permissions)))
              /\ script' = rbac_next(
                    [s EXCEPT !.role_ids = @ @@ (config.name :> Len(platform) + 1)],
                    roles_config, "create_groups")
           \/ /\ script.failures < MaxFailures
              /\ platform' = platform
              /\ script' = rbac_raise(s)
    /\ UNCHANGED <<generator_vars, helper_vars>>

(* One iteration of the loop of create_groups *)
create_groups ==
    /\ script.name = "create_users_roles"
    /\ script.pc = "create_groups"
    /\ LET config == groups_config[script.index]
           role_id_list == {script.role_ids[config.roles[k]] : k \in DOMAIN config.roles}
           edges == name_edges(platform, "CoreAccountGroup", config.name)
           s == rbac_step(script, "groups")
       IN  \/ /\ edges # {}
              /\ platform' = platform
              /\ script' = rbac_next(
                    [s EXCEPT !.group_ids = @ @@ (config.name :> first_id(edges))],
                    groups_config, "create_users")
           \/ /\ edges = {}
              /\ platform' = Append(platform,
                    Object("CoreAccountGroup", Named(config.name), role_id_list))
              /\ script' = rbac_next(
                    [s EXCEPT !.group_ids = @ @@ (config.name :> Len(platform) + 1)],
                    groups_config, "create_users")
           \/ /\ script.failures < MaxFailures
              /\ platform' = platform
              /\ script' = rbac_raise(s)
    /\ UNCHANGED <<generator_vars, helper_vars>>

(* One iteration of the loop of create_users *)
create_users ==
    /\ script.name = "create_users_roles"
    /\ script.pc = "create_users"
    /\ LET config == users_config[script.index]
           group_id_list == {script.group_ids[config.groups[k]] : k \in DOMAIN config.groups}
           edges == name_edges(platform, "CoreAccount", config.name)
           s == rbac_step(script, "users")
       IN  \/ /\ edges # {}
              /\ platform' = platform
              /\ script' = rbac_next(s, users_config, "exit")
           \/ /\ edges = {}
              /\ platform' = Append(platform,
                    Object("CoreAccount", Named(config.name), group_id_list))
              /\ script' = rbac_next(s, users_config, "exit")
           \/ /\ script.failures < MaxFailures
              /\ platform' = platform
              /\ script' = rbac_raise(s)
    /\ UNCHANGED <<generator_vars, helper_vars>>

(* The script is run once more on the platform as it is *)
run_again ==
    /\ script.name = "create_users_roles"
    /\ script.pc = "exit"
    /\ script.run < MaxRuns
    /\ script' = RbacScript(script.run + 1, script.failures)
    /\ UNCHANGED <<generator_vars, helper_vars, platform>>

(* Permissions the platform may hold before the first run: two of the      *)
(* script's own and the one its roles name without creating it             *)
EarlierPermissions ==
    <<Object("CoreObjectPermission", PermissionData("*", "*", "view", 6), {}),
      Object("CoreGlobalPermission", PermissionData("", "", "manage_schema", 6), {}),
      Object("CoreGlobalPermission", PermissionData("", "", "edit_default_branch", 6), {})>>

(* The objects of a configuration list, linked as the script would link    *)
(* them on the platform given                                              *)
RECURSIVE with_roles(_, _)
with_roles(objects, configs) ==
    IF configs = << >> THEN objects
    ELSE with_roles(Append(objects,
             Object("CoreAccountRole", Named(Head(configs).name),
                    permission_ids(objects, Head(configs).permissions))),
             Tail(configs))

RECURSIVE with_named(_, _, _, _)
with_named(objects, kind, linked_kind, configs) ==
    IF configs = << >> THEN objects
    ELSE with_named(Append(objects,
             Object(kind, Named(Head(configs).name),
                    UNION {name_edges(objects, linked_kind, Head(configs).links[k]) :
                              k \in DOMAIN Head(configs).links})),
             kind, linked_kind, Tail(configs))

group_links == [k \in DOMAIN groups_config |->
                  [name |-> groups_config[k].name, links |-> groups_config[k].roles]]

user_links == [k \in DOMAIN users_config |->
                 [name |-> users_config[k].name, links |-> users_config[k].groups]]

Platforms ==
    {with_named(
        with_named(
           with_roles(SelectSeq(EarlierPermissions, LAMBDA p : p \in permissions),
                      SubSeq(roles_config, 1, roles)),
           "CoreAccountGroup", "CoreAccountRole", SubSeq(group_links, 1, groups)),
        "CoreAccount", "CoreAccountGroup", SubSeq(user_links, 1, users)) :
      permissions \in SUBSET Range(EarlierPermissions),
      roles \in 0..Len(roles_config),
      groups \in {0, Len(groups_config)},
      users \in {0, Len(users_config)}}

(* python scripts/create_users_roles.py on a platform of earlier objects *)
InitRbac ==
    /\ NoGenerator
    /\ NoHelper
    /\ platform \in Platforms
    /\ script = RbacScript(1, 0)

NextRbac ==
    \/ ensure_permissions_exist
    \/ create_roles
    \/ create_groups
    \/ create_users
    \/ run_again

SpecRbac == InitRbac /\ [][NextRbac]_vars

----------------------------------------------------------------------------
(* scripts/create_proposed_change.py                                       *)
(* The platform: its branches and its proposed changes in creation order.  *)
(* It refuses a proposed change whose source branch it does not hold (the  *)
(* script relies on that, lines 230-232) and may refuse a second one for   *)
(* the same branch.                                                        *)

BranchNames == {"add-dc3", "my-feature", "dc-juniper"}

(* branch_name = branch if branch else "add-dc3" *)
branch_name(branch) == IF branch # "" THEN branch ELSE "add-dc3"

ProposedChange(branch) ==
    [name |-> <<"Proposed change for ", branch>>,
     source_branch |-> branch, destination_branch |-> "main"]

ProposedChangeScript(branch) ==
    [name |-> "create_proposed_change", pc |-> "connect", branch |-> branch_name(branch),
     connected |-> FALSE, verified |-> "", saved |-> FALSE, exit_code |-> 0]

(* Step 1: InfrahubClient() *)
connect ==
    /\ script.name = "create_proposed_change"
    /\ script.pc = "connect"
    /\ \/ script' = [script EXCEPT !.connected = TRUE, !.pc = "verify branch"]
       \/ script' = [script EXCEPT !.pc = "exit", !.exit_code = 1]
    /\ UNCHANGED <<generator_vars, helper_vars, platform>>

(* Step 2: client.branch.get(branch); a branch that is not there comes     *)
(* back as nothing or as an exception, and any exception is only a warning *)
verify_branch ==
    /\ script.name = "create_proposed_change"
    /\ script.pc = "verify branch"
    /\ \/ /\ script.branch \in platform.branches
          /\ script' = [script EXCEPT !.verified = "exists", !.pc = "create"]
       \/ /\ script.branch \notin platform.branches
          /\ script' = [script EXCEPT !.verified = "missing", !.pc = "exit",
                                      !.exit_code = 1]
       \/ script' = [script EXCEPT !.verified = "could not verify", !.pc = "create"]
    /\ UNCHANGED <<generator_vars, helper_vars, platform>>

(* Variant: 0 whatever became of the creation *)
exit_code_always_0(saved) == 0

(* return 0 at the end of the try block, return 1 from its except clause *)
exit_code_after(saved) == IF saved THEN 0 ELSE 1

(* Step 3: client.create(kind="CoreProposedChange", ...) and save() *)
create_and_save ==
    /\ script.name = "create_proposed_change"
    /\ script.pc = "create"
    /\ \E saved \in BOOLEAN :
          /\ saved => script.branch \in platform.branches
          /\ platform' = IF saved
                         THEN [platform EXCEPT !.proposed_changes =
                                  Append(@, ProposedChange(script.branch))]
                         ELSE platform
          /\ script' = [script EXCEPT !.saved = saved, !.pc = "exit",
                                      !.exit_code = exit_code_after(saved)]
    /\ UNCHANGED <<generator_vars, helper_vars>>

(* python scripts/create_proposed_change.py [--branch NAME] *)
InitProposedChange ==
    /\ NoGenerator
    /\ NoHelper
    /\ \E branch \in BranchNames \cup {""} :
          script = ProposedChangeScript(branch)
    /\ \E branches \in SUBSET BranchNames :
          \E earlier \in {<< >>} \cup {<<ProposedChange(b)>> : b \in branches} :
             platform = [branches |-> branches, proposed_changes |-> earlier]

NextProposedChange ==
    \/ connect
    \/ verify_branch
    \/ create_and_save

SpecProposedChange == InitProposedChange /\ [][NextProposedChange]_vars

----------------------------------------------------------------------------
(* service_catalog/utils/api.py: the API client over the SDK               *)

(* The exception classes: class -> base class *)
base_class ==
    [c \in {"InfrahubAPIError", "InfrahubConnectionError", "InfrahubHTTPError",
            "InfrahubGraphQLError", "ServerNotReachableError", "GraphQLError",
            "AuthenticationError", "AttributeError", "KeyError", "Exception"} |->
        CASE c \in {"InfrahubConnectionError", "InfrahubHTTPError",
                    "InfrahubGraphQLError"} -> "InfrahubAPIError"
          [] c = "Exception" -> "BaseException"
          [] OTHER -> "Exception"]

RECURSIVE issubclass(_, _)
issubclass(class, base) ==
    \/ class = base
    \/ class \in DOMAIN base_class /\ issubclass(base_class[class], base)

(* Variant: the handler catches the API client's own errors only *)
caught_own_errors_only(exception) == issubclass(exception, "InfrahubAPIError")

(* except Exception as e *)
caught(exception) == issubclass(exception, "Exception")

(* The methods of InfrahubClient that hold a try block: the message and    *)
(* class of the error their handler raises, whether they reach the SDK     *)
(* through self.execute_graphql, and the message of the error they raise   *)
(* themselves when a mutation is refused                                   *)
api_methods ==
    <<
      [method |-> "get_branches", operation |-> "Failed to fetch branches",
       error |-> "InfrahubConnectionError", through |-> "sdk",
       refused |-> ""],
      [method |-> "get_datacenters", operation |-> "Failed to fetch datacenters",
       error |-> "InfrahubAPIError", through |-> "sdk",
       refused |-> ""],
      [method |-> "get_colocation_centers", operation |-> "Failed to fetch colocation centers",
       error |-> "InfrahubAPIError", through |-> "sdk",
       refused |-> ""],
      [method |-> "get_locations", operation |-> "Failed to fetch locations",
       error |-> "InfrahubAPIError", through |-> "sdk",
       refused |-> ""],
      [method |-> "get_providers", operation |-> "Failed to fetch providers",
       error |-> "InfrahubAPIError", through |-> "sdk",
       refused |-> ""],
      [method |-> "get_designs", operation |-> "Failed to fetch designs",
       error |-> "InfrahubAPIError", through |-> "sdk",
       refused |-> ""],
      [method |-> "get_active_prefixes", operation |-> "Failed to fetch active prefixes",
       error |-> "InfrahubAPIError", through |-> "execute_graphql",
       refused |-> ""],
      [method |-> "get_proposed_changes", operation |-> "Failed to fetch proposed changes",
       error |-> "InfrahubAPIError", through |-> "sdk",
       refused |-> ""],
      [method |-> "execute_graphql", operation |-> "GraphQL error",
       error |-> "InfrahubGraphQLError", through |-> "sdk",
       refused |-> ""],
      [method |-> "create_branch", operation |-> "Failed to create branch",
       error |-> "InfrahubAPIError", through |-> "sdk",
       refused |-> ""],
      [method |-> "create_datacenter", operation |-> "Failed to create datacenter",
       error |-> "InfrahubAPIError", through |-> "execute_graphql",
       refused |-> "Failed to create datacenter"],
      [method |-> "create_proposed_change", operation |-> "Failed to create proposed change",
       error |-> "InfrahubAPIError", through |-> "sdk",
       refused |-> ""],
      [method |-> "get_location_rows", operation |-> "Failed to fetch location rows",
       error |-> "InfrahubAPIError", through |-> "sdk",
       refused |-> ""],
      [method |-> "get_racks_by_row", operation |-> "Failed to fetch racks for row",
       error |-> "InfrahubAPIError", through |-> "execute_graphql",
       refused |-> ""],
      [method |-> "get_devices_by_rack", operation |-> "Failed to fetch devices for rack",
       error |-> "InfrahubAPIError", through |-> "execute_graphql",
       refused |-> ""],
      [method |-> "get_location_buildings", operation |-> "Failed to fetch location buildings",
       error |-> "InfrahubAPIError", through |-> "sdk",
       refused |-> ""],
      [method |-> "get_pods_by_building", operation |-> "Failed to fetch pods for building",
       error |-> "InfrahubAPIError", through |-> "execute_graphql",
       refused |-> ""],
      [method |-> "get_racks_by_pod", operation |-> "Failed to fetch racks for pod",
       error |-> "InfrahubAPIError", through |-> "execute_graphql",
       refused |-> ""],
      [method |-> "get_devices_by_location", operation |-> "Failed to fetch devices for location",
       error |-> "InfrahubAPIError", through |-> "execute_graphql",
       refused |-> ""],
      [method |-> "get_interfaces_by_device", operation |-> "Failed to fetch interfaces for device",
       error |-> "InfrahubAPIError", through |-> "execute_graphql",
       refused |-> ""],
      [method |-> "get_vlans_by_interface", operation |-> "Failed to fetch VLANs for interface",
       error |-> "InfrahubAPIError", through |-> "execute_graphql",
       refused |-> ""],
      [method |-> "get_all_vlans", operation |-> "Failed to fetch VLANs",
       error |-> "InfrahubAPIError", through |-> "sdk",
       refused |-> ""],
      [method |-> "assign_vlan_to_interface", operation |-> "Failed to assign VLAN to interface",
       error |-> "InfrahubAPIError", through |-> "execute_graphql",
       refused |-> "VLAN assignment mutation failed"],
      [method |-> "get_organizations", operation |-> "Failed to fetch organizations",
       error |-> "InfrahubAPIError", through |-> "execute_graphql",
       refused |-> ""],
      [method |-> "get_deployments", operation |-> "Failed to fetch deployments",
       error |-> "InfrahubAPIError", through |-> "execute_graphql",
       refused |-> ""],
      [method |-> "create_network_segment", operation |-> "Failed to create network segment",
       error |-> "InfrahubAPIError", through |-> "execute_graphql",
       refused |-> "Failed to create network segment"],
      [method |-> "get_network_segments_by_deployment", operation |-> "Failed to fetch network segments",
       error |-> "InfrahubAPIError", through |-> "execute_graphql",
       refused |-> ""]>>

ApiMethod(method) ==
    api_methods[CHOOSE k \in DOMAIN api_methods : api_methods[k].method = method]

(* An exception under way: its class and its message, ": " between the parts *)
Exception(class, message) == [raised |-> class, message |-> message, value |-> ""]

(* The body of the try block and the handler of a method. `sdk` is what    *)
(* the SDK call does: [raised, message], raised = "" when it returns, and  *)
(* ok = FALSE when the mutation it carried was refused                     *)
try_body(m, outcome) ==
    IF outcome.raised # "" THEN outcome
    ELSE IF m.refused # "" /\ ~outcome.ok
    THEN Exception("InfrahubAPIError", <<m.refused, "ok false">>)
    ELSE [raised |-> "", message |-> << >>, value |-> m.method]

handled(m, outcome) ==
    IF outcome.raised # "" /\ caught(outcome.raised)
    THEN Exception(m.error, <<m.operation>> \o outcome.message)
    ELSE outcome

execute_graphql(sdk) ==
    handled(ApiMethod("execute_graphql"), try_body(ApiMethod("execute_graphql"), sdk))

api_call(method, sdk) ==
    LET m == ApiMethod(method)
    IN  handled(m, try_body(m, IF m.through = "execute_graphql" /\ method # "execute_graphql"
                               THEN [execute_graphql(sdk) EXCEPT !.value = ""]
                                    @@ [ok |-> sdk.ok]
                               ELSE sdk))

(* f"Failed to fetch {object_type}" *)
fetch_message(object_type) ==
    CASE object_type = "DcimDevice" -> "Failed to fetch DcimDevice"
      [] OTHER -> "Failed to fetch"

(* get_objects hands the two known types on and queries the others itself *)
get_objects(object_type, sdk) ==
    IF object_type = "TopologyDataCenter" THEN api_call("get_datacenters", sdk)
    ELSE IF object_type = "TopologyColocationCenter"
    THEN api_call("get_colocation_centers", sdk)
    ELSE handled([method |-> "get_objects", operation |-> fetch_message(object_type),
                  error |-> "InfrahubAPIError"],
                 IF sdk.raised # "" THEN sdk
                 ELSE [raised |-> "", message |-> << >>, value |-> "get_objects"])

(* Variant: every answer to the mutation counts as an accepted one *)
mutation_ok_when_answered(answer) == answer.present

(* result.get("InfrahubInterfaceUpdate", {}).get("ok") *)
mutation_ok(answer) == answer.present /\ answer.ok = "True"

(* assign_vlan_to_interface: `outcome` is what self.execute_graphql did,   *)
(* an exception under way or the answer to the mutation                    *)
assign_vlan_to_interface(outcome) ==
    LET m == ApiMethod("assign_vlan_to_interface")
    IN  handled(m,
            IF outcome.raised # "" THEN outcome
            ELSE IF mutation_ok(outcome.answer)
            THEN [raised |-> "", message |-> << >>,
                  returned |-> [success |-> TRUE, interface |-> outcome.answer.object]]
            ELSE Exception("InfrahubAPIError", <<m.refused, "result">>))

(* What the SDK does under a call: it returns (the mutation accepted or    *)
(* refused), or it raises one of its exceptions, or the handling of what   *)
(* it returned raises                                                      *)
SdkOutcomes ==
    {[raised |-> "", message |-> << >>, ok |-> ok] : ok \in BOOLEAN}
    \cup {[raised |-> class, message |-> <<class>>, ok |-> FALSE] :
            class \in {"ServerNotReachableError", "GraphQLError", "AuthenticationError",
                       "AttributeError", "KeyError", "Exception"}}

ApiCalls ==
    {[method |-> api_methods[k].method, object_type |-> "", sdk |-> sdk] :
        k \in DOMAIN api_methods, sdk \in SdkOutcomes}
    \cup {[method |-> "get_objects", object_type |-> object_type, sdk |-> sdk] :
            object_type \in {"TopologyDataCenter", "TopologyColocationCenter", "DcimDevice"},
            sdk \in SdkOutcomes}

(* The answers to the update mutation: no InfrahubInterfaceUpdate entry, or *)
(* one with the two fields the mutation selects, ok and object             *)
MutationAnswers(interface_id) ==
    {[present |-> FALSE]}
    \cup {[present |-> TRUE, ok |-> ok, object |-> object] :
             ok \in {"True", "False", "None"}, object \in {"None", interface_id}}

AssignCalls ==
    UNION {{[interface_id |-> interface_id, branch |-> branch, outcome |-> outcome] :
               outcome \in {[raised |-> "", message |-> << >>, answer |-> answer] :
                               answer \in MutationAnswers(interface_id)}
                           \cup {execute_graphql(sdk) : sdk \in {s \in SdkOutcomes : s.raised # ""}}} :
           interface_id \in {"iface-1", "iface-2"}, branch \in {"main", "vlan-change"}}

InitApi ==
    /\ NoGenerator
    /\ NoScript
    /\ arg \in {[fn |-> "api", value |-> call] : call \in ApiCalls}
               \cup {[fn |-> "assign_vlan", value |-> call] : call \in AssignCalls}
    /\ result = << >>

call_api_method ==
    /\ arg.fn = "api"
    /\ "caller" \notin DOMAIN result
    /\ result' = result @@
          ("caller" :> IF arg.value.method = "get_objects"
                       THEN get_objects(arg.value.object_type, arg.value.sdk)
                       ELSE api_call(arg.value.method, arg.value.sdk))
    /\ UNCHANGED <<generator_vars, script_vars, arg>>

call_assign_vlan_to_interface ==
    /\ arg.fn = "assign_vlan"
    /\ "caller" \notin DOMAIN result
    /\ result' = result @@ ("caller" :> assign_vlan_to_interface(arg.value.outcome))
    /\ UNCHANGED <<generator_vars, script_vars, arg>>

NextApi ==
    \/ call_api_method
    \/ call_assign_vlan_to_interface

SpecApi == InitApi /\ [][NextApi]_vars

----------------------------------------------------------------------------
(* The VLAN change workflow of the service catalog                         *)
(* (pages_disabled/3_VLAN_Management.py): a branch, the assignment in it,  *)
(* a proposed change for it. `platform` holds what Infrahub has stored,    *)
(* script.calls the calls made to the API client with their outcome,       *)
(* script.shown what the page has displayed.                               *)

(* f"vlan-change-{device_name}-{interface_name}-{timestamp}" *)
vlan_branch_name(device, interface_name, timestamp) ==
    <<"vlan-change", device, interface_name, timestamp>>

VlanWorkflow(device, interface_name, interface_id, vlan_id, timestamp) ==
    [name |-> "vlan_change", pc |-> "create_branch",
     branch_name |-> vlan_branch_name(device, interface_name, timestamp),
     interface_name |-> interface_name, interface_id |-> interface_id,
     vlan_id |-> vlan_id, calls |-> << >>, shown |-> << >>]

(* `word in error_msg` for the words the handler looks for, by the parts   *)
(* of the lower-cased message                                              *)
part_contains(part, word) ==
    word \in (CASE part = "Failed to create branch" -> {"branch", "create"}
               [] part = "Failed to assign VLAN to interface" -> {"assign", "interface"}
               [] part = "VLAN assignment mutation failed" -> {"assign", "mutation"}
               [] part = "result" -> {"interface"}
               [] part = "Failed to create proposed change" ->
                     {"create", "proposed", "change"}
               [] part = "Branch creation failed" -> {"branch"}
               [] OTHER -> {})

word_in(word, error_msg) ==
    \E k \in DOMAIN error_msg : part_contains(error_msg[k], word)

(* What the page displays: st.success, display_success, display_error; the *)
(* branch it names, << >> when it names none                               *)
Display(kind, title, branch) == [kind |-> kind, title |-> title, branch |-> branch]

(* except InfrahubAPIError / InfrahubConnectionError / Exception *)
vlan_workflow_error(e, branch) ==
    IF issubclass(e.raised, "InfrahubAPIError")
    THEN IF word_in("branch", e.message) /\ word_in("create", e.message)
         THEN Display("error", "Branch creation failed", << >>)
         ELSE IF \/ word_in("assign", e.message)
                 \/ word_in("mutation", e.message)
                 \/ word_in("interface", e.message)
         THEN Display("error", "VLAN assignment failed", branch)
         ELSE IF word_in("proposed", e.message) \/ word_in("change", e.message)
         THEN Display("error", "Proposed change creation failed", branch)
         ELSE Display("error", "Workflow failed", << >>)
    ELSE Display("error", "Unexpected error", << >>)

(* Variant: the workflow goes on after a failed call *)
vlan_workflow_after_carry_on(s, outcome, following, success) ==
    [s EXCEPT !.pc = following,
              !.calls = Append(@, [method |-> s.pc, ok |-> outcome.raised = ""]),
              !.shown = Append(@, success)]

(* A call inside the try block: the next step and its message when it      *)
(* returns, the handler and the end of the workflow when it raises         *)
vlan_workflow_after(s, outcome, following, success) ==
    [s EXCEPT !.pc = IF outcome.raised = "" THEN following ELSE "done",
              !.calls = Append(@, [method |-> s.pc, ok |-> outcome.raised = ""]),
              !.shown = Append(@, IF outcome.raised = "" THEN success
                                  ELSE vlan_workflow_error(outcome, s.branch_name))]

(* What the SDK does under a call of the workflow: it returns, or it       *)
(* raises with one of the texts                                            *)
WorkflowSdk ==
    {[raised |-> "", message |-> << >>, ok |-> TRUE]}
    \cup {[raised |-> "Exception", message |-> <<text>>, ok |-> FALSE] :
             text \in {"Connection failed", "Branch creation failed", "PC creation failed"}}

(* Step 1: client.create_branch(branch_name, from_branch="main"); Infrahub *)
(* refuses a name it has already                                           *)
vlan_create_branch ==
    /\ script.name = "vlan_change"
    /\ script.pc = "create_branch"
    /\ \E sdk \in WorkflowSdk :
         /\ sdk.raised = "" => script.branch_name \notin platform.branches
         /\ script' = vlan_workflow_after(script, api_call("create_branch", sdk),
                           "assign_vlan_to_interface",
                           Display("success", "Branch created", script.branch_name))
         /\ platform' = IF sdk.raised = ""
                         THEN [platform EXCEPT !.branches = @ \cup {script.branch_name}]
                         ELSE platform
    /\ UNCHANGED <<generator_vars, helper_vars>>

(* Step 2: client.assign_vlan_to_interface(interface_id, vlan_id, branch_name) *)
vlan_assign ==
    /\ script.name = "vlan_change"
    /\ script.pc = "assign_vlan_to_interface"
    /\ \E outcome \in
            {[raised |-> "", message |-> << >>, answer |-> answer] :
                answer \in MutationAnswers(script.interface_id)}
            \cup {execute_graphql(sdk) : sdk \in {s \in WorkflowSdk : s.raised # ""}} :
         /\ script' = vlan_workflow_after(script, assign_vlan_to_interface(outcome),
                           "create_proposed_change",
                           Display("success", "assigned", << >>))
         /\ platform' =
               IF outcome.raised = "" /\ mutation_ok(outcome.answer)
               THEN [platform EXCEPT !.vlans = @ \cup
                        {<<script.branch_name, script.interface_id, script.vlan_id>>}]
               ELSE platform
    /\ UNCHANGED <<generator_vars, helper_vars>>

(* Step 3: client.create_proposed_change(branch=branch_name, ...) *)
vlan_create_proposed_change ==
    /\ script.name = "vlan_change"
    /\ script.pc = "create_proposed_change"
    /\ \E sdk \in WorkflowSdk :
         /\ script' = vlan_workflow_after(script, api_call("create_proposed_change", sdk),
                           "done",
                           Display("success", "Proposed change created successfully!",
                                   << >>))
         /\ platform' = IF sdk.raised = ""
                         THEN [platform EXCEPT !.changes = @ \cup {script.branch_name}]
                         ELSE platform
    /\ UNCHANGED <<generator_vars, helper_vars>>

(* The page is at rest; the operator submits a VLAN change. Infrahub may   *)
(* hold a branch of the same second already.                               *)
InitVlanWorkflow ==
    /\ NoGenerator
    /\ NoHelper
    /\ \E device \in {"leaf-1", "leaf-2"}, interface_name \in {"eth1", "eth2"},
          vlan_id \in {"vlan-1", "vlan-2"}, timestamp \in {"20250101-120000"} :
          /\ script = VlanWorkflow(device, interface_name, "iface-1", vlan_id, timestamp)
          /\ platform \in
                {[branches |-> branches, vlans |-> {}, changes |-> {}] :
                   branches \in {{}, {vlan_branch_name(device, interface_name,
                                                        timestamp)},
                                  {vlan_branch_name("leaf-1", "eth1", "20250101-115959")}}}

NextVlanWorkflow ==
    \/ vlan_create_branch
    \/ vlan_assign
    \/ vlan_create_proposed_change

SpecVlanWorkflow == InitVlanWorkflow /\ [][NextVlanWorkflow]_vars

----------------------------------------------------------------------------
(* The data-center creation workflow of the service catalog                *)
(* (pages/1_Create_DC.py). `script` is st.session_state.dc_creation with   *)
(* the wait time of the configuration and what the page last displayed of  *)
(* the wait; every action is one run of the page. `platform` holds what    *)
(* Infrahub has stored.                                                    *)

(* validate_config, for GENERATOR_WAIT_TIME *)
validate_config(generator_wait_time) ==
    IF generator_wait_time < 0 THEN Raised("ValueError") ELSE Returned("None")

(* f"add-{dc_name.lower().replace(' ', '-')}" *)
dc_branch_name(dc_name) ==
    CASE dc_name = "DC 3" -> "add-dc-3"
      [] dc_name = "dc-3" -> "add-dc-3"
      [] dc_name = "DC4" -> "add-dc4"

(* for i in range(duration + 1), from i on: the updates of the progress    *)
(* bar (progress = i / duration as the fraction <<i, duration>>, and       *)
(* int(progress * 100)) up to the one that raises                          *)
RECURSIVE for_i_in_range(_, _)
for_i_in_range(i, duration) ==
    IF i >= duration + 1 THEN [raised |-> "", updates |-> << >>]
    ELSE IF duration = 0 THEN [raised |-> "ZeroDivisionError", updates |-> << >>]
    ELSE LET rest == for_i_in_range(i + 1, duration)
         IN  [raised |-> rest.raised,
              updates |-> <<[progress |-> <<i, duration>>,
                             percentage |-> (i * 100) \div duration]>> \o rest.updates]

wait_for_generator(duration) == for_i_in_range(0, duration)

initialize_dc_creation_state(s, dc_name) ==
    [name |-> "create_dc", generator_wait_time |-> s.generator_wait_time,
     workflow |-> s.workflow + 1, active |-> TRUE, step |-> 1, dc_name |-> dc_name,
     branch_name |-> dc_branch_name(dc_name), branch_created |-> FALSE,
     dc_created |-> FALSE, pc_created |-> FALSE, error |-> << >>, pc_url |-> << >>,
     waited |-> << >>, exception |-> ""]

(* Variant: the flag of the step is set whatever the call did *)
after_api_call_flag_always(s, outcome, flag) ==
    IF outcome.raised = ""
    THEN [s EXCEPT ![flag] = TRUE, !.step = @ + 1, !.exception = ""]
    ELSE [s EXCEPT ![flag] = TRUE, !.error = outcome.message, !.active = FALSE,
                   !.exception = ""]

(* The end of a step with an API call: the flag and the next step when the *)
(* call returned, the handler of the four Infrahub errors when it raised   *)
(* one of them, the exception on the page otherwise                        *)
after_api_call(s, outcome, flag) ==
    IF outcome.raised = ""
    THEN [s EXCEPT ![flag] = TRUE, !.step = @ + 1, !.exception = ""]
    ELSE IF \E class \in {"InfrahubConnectionError", "InfrahubHTTPError",
                            "InfrahubGraphQLError", "InfrahubAPIError"} :
               issubclass(outcome.raised, class)
    THEN [s EXCEPT !.error = outcome.message, !.active = FALSE, !.exception = ""]
    ELSE [s EXCEPT !.exception = outcome.raised]

(* What the SDK does under a call of the workflow: it returns (the         *)
(* mutation accepted or refused), or it raises                             *)
DcWorkflowSdk ==
    {[raised |-> "", message |-> << >>, ok |-> ok] : ok \in BOOLEAN}
    \cup {[raised |-> class, message |-> <<class>>, ok |-> FALSE] :
             class \in {"ServerNotReachableError", "GraphQLError"}}

(* The form is submitted: handle_dc_creation *)
handle_dc_creation ==
    /\ script.name = "create_dc"
    /\ ~script.active
    /\ script.workflow < MaxRuns
    /\ \E dc_name \in {"DC 3", "dc-3", "DC4"} :
          script' = initialize_dc_creation_state(script, dc_name)
    /\ UNCHANGED <<generator_vars, helper_vars, platform>>

(* Step 1: client.create_branch(branch_name, from_branch="main"); Infrahub *)
(* refuses a name it has already                                           *)
step_1_create_branch ==
    /\ script.name = "create_dc"
    /\ script.active
    /\ script.step = 1
    /\ \E sdk \in {o \in DcWorkflowSdk : o.ok \/ o.raised # ""} :
         /\ sdk.raised = "" => script.branch_name \notin platform.branches
         /\ script' = after_api_call(script, api_call("create_branch", sdk),
                                      "branch_created")
         /\ platform' = IF sdk.raised = ""
                         THEN [platform EXCEPT !.branches = @ \cup {script.branch_name}]
                         ELSE platform
    /\ UNCHANGED <<generator_vars, helper_vars>>

(* Step 2: client.create_datacenter(branch_name, dc_data) *)
step_2_create_datacenter ==
    /\ script.name = "create_dc"
    /\ script.active
    /\ script.step = 2
    /\ \E sdk \in DcWorkflowSdk :
         /\ script' = after_api_call(script, api_call("create_datacenter", sdk),
                                      "dc_created")
         /\ platform' = IF sdk.raised = "" /\ sdk.ok
                         THEN [platform EXCEPT !.datacenters = @ \cup
                                  {<<script.branch_name, script.dc_name>>}]
                         ELSE platform
    /\ UNCHANGED <<generator_vars, helper_vars>>

(* Step 3: wait_for_generator(GENERATOR_WAIT_TIME); what it raises is not  *)
(* one of the errors of the handler                                        *)
step_3_wait_for_generator ==
    /\ script.name = "create_dc"
    /\ script.active
    /\ script.step = 3
    /\ \E wait \in {wait_for_generator(script.generator_wait_time)} :
         script' = IF wait.raised = ""
                   THEN [script EXCEPT !.waited = <<wait>>, !.step = 4,
                                       !.exception = ""]
                   ELSE [script EXCEPT !.waited = <<wait>>, !.exception = wait.raised]
    /\ UNCHANGED <<generator_vars, helper_vars, platform>>

(* Step 4: client.create_proposed_change(branch_name, pc_name, ...) and    *)
(* client.get_proposed_change_url(pc_id)                                   *)
step_4_create_proposed_change ==
    /\ script.name = "create_dc"
    /\ script.active
    /\ script.step = 4
    /\ \E sdk \in {o \in DcWorkflowSdk : o.ok \/ o.raised # ""} :
         /\ script' =
               [after_api_call(script, api_call("create_proposed_change", sdk),
                               "pc_created")
                  EXCEPT !.pc_url = IF sdk.raised = ""
                                    THEN <<"proposed-changes", script.branch_name>>
                                    ELSE @]
         /\ platform' = IF sdk.raised = ""
                         THEN [platform EXCEPT !.changes = @ \cup {script.branch_name}]
                         ELSE platform
    /\ UNCHANGED <<generator_vars, helper_vars>>

(* Step 5: state["active"] = False and the success message *)
step_5_complete ==
    /\ script.name = "create_dc"
    /\ script.active
    /\ script.step = 5
    /\ script' = [script EXCEPT !.active = FALSE]
    /\ UNCHANGED <<generator_vars, helper_vars, platform>>

(* The page before the form is submitted, under a wait time of the         *)
(* environment (validate_config is defined and never called)               *)
InitCreateDc ==
    /\ NoGenerator
    /\ NoHelper
    /\ \E generator_wait_time \in -1 .. MaxWait :
          script = [name |-> "create_dc", active |-> FALSE, workflow |-> 0,
                    generator_wait_time |-> generator_wait_time]
    /\ platform = [branches |-> {}, datacenters |-> {}, changes |-> {}]

NextCreateDc ==
    \/ handle_dc_creation
    \/ step_1_create_branch
    \/ step_2_create_datacenter
    \/ step_3_wait_for_generator
    \/ step_4_create_proposed_change
    \/ step_5_complete

SpecCreateDc == InitCreateDc /\ [][NextCreateDc]_vars

(* st.rerun() at the end of a step starts the next run of the page *)
FairSpecCreateDc == SpecCreateDc /\ WF_vars(NextCreateDc)

----------------------------------------------------------------------------
(* Vocabulary of the claims                                                *)

DevicesOf(roles) == {devices[k] : k \in {j \in DOMAIN devices : devices[j].role \in roles}}

NumberOf(name) == ParseInt(name.seq)

(* Number of interfaces of a role in the expanded template of a device *)
TemplatePorts(device, role) ==
    IF device.template \in DOMAIN templates
    THEN Cardinality({k \in DOMAIN templates[device.template] :
                         templates[device.template][k].role = role})
    ELSE 0

Joined(a, b) ==
    \E k \in DOMAIN cables :
        \/ cables[k].source = a.name /\ cables[k].target = b.name
        \/ cables[k].source = b.name /\ cables[k].target = a.name

FullMesh ==
    \A spine \in DevicesOf({"spine"}) :
        \A other \in DevicesOf({"leaf", "border_leaf"}) : Joined(spine, other)

PortsSuffice ==
    /\ \A spine \in DevicesOf({"spine"}) :
          /\ TemplatePorts(spine, "leaf") >= Cardinality(DevicesOf({"leaf"}))
          /\ TemplatePorts(spine, "uplink") >= Cardinality(DevicesOf({"border_leaf"}))
    /\ \A other \in DevicesOf({"leaf", "border_leaf"}) :
          TemplatePorts(other, "uplink") >= Cardinality(DevicesOf({"spine"}))

----------------------------------------------------------------------------
----------------------------------------------------------------------------
(* Rack assignment                                                         *)

Leaves == {d \in DevicesOf({"leaf"}) : TRUE}

LeavesIn(r) ==
    IF r \in DOMAIN rack_occupancy
    THEN {rack_occupancy[r][k].device :
             k \in {j \in DOMAIN rack_occupancy[r] :
                       rack_occupancy[r][j].device.role = "leaf"}}
    ELSE {}

(* C2, as stated: once rack assignment has run on a topology with N leaf   *)
(* devices, leaf number k is in rack k for every k in 1..N, and every rack *)
(* holds exactly one leaf.                                                 *)
C2_OneLeafPerRack ==
    Called("assign_devices_to_racks") =>
        /\ \A leaf \in Leaves : LeavesIn(NumberOf(leaf.name)) = {leaf.name}
        /\ \A r \in DOMAIN rack_occupancy : Cardinality(LeavesIn(r)) = 1

Holds(r, role, number, position) ==
    /\ r \in DOMAIN rack_occupancy
    /\ \E k \in DOMAIN rack_occupancy[r] :
          /\ rack_occupancy[r][k].device.role = role
          /\ NumberOf(rack_occupancy[r][k].device) = number
          /\ rack_occupancy[r][k].position = position

HoldsOnly(r, n) == r \in DOMAIN rack_occupancy /\ Len(rack_occupancy[r]) = n

ExampleTopology ==
    /\ Cardinality(DevicesOf({"leaf"})) = 4
    /\ Cardinality(DevicesOf({"spine"})) = 2
    /\ Cardinality(DevicesOf({"console"})) = 2
    /\ Cardinality(DevicesOf({"oob"})) = 2
    /\ Cardinality(DevicesOf({"border_leaf"})) = 0
    /\ \A k \in DOMAIN devices : devices[k].height = 1

(* C3, as stated: for 4 leaves, 2 spines, 2 console servers and 2 OOB      *)
(* switches, all 1U, rack 1 holds only leaf-01 at U42, rack 2 holds        *)
(* leaf-02 at U42, spine-01 at U40, console-01 at U39, oob-01 at U38, rack *)
(* 3 holds leaf-03 at U42, spine-02 at U40, console-02 at U39, oob-02 at   *)
(* U38, and rack 4 holds only leaf-04 at U42.                              *)
C3_DocstringExample ==
    (Called("assign_devices_to_racks") /\ ExampleTopology) =>
        /\ HoldsOnly(1, 1) /\ Holds(1, "leaf", 1, 42)
        /\ HoldsOnly(2, 4) /\ Holds(2, "leaf", 2, 42) /\ Holds(2, "spine", 1, 40)
                           /\ Holds(2, "console", 1, 39) /\ Holds(2, "oob", 1, 38)
        /\ HoldsOnly(3, 4) /\ Holds(3, "leaf", 3, 42) /\ Holds(3, "spine", 2, 40)
                           /\ Holds(3, "console", 2, 39) /\ Holds(3, "oob", 2, 38)
        /\ HoldsOnly(4, 1) /\ Holds(4, "leaf", 4, 42)

(* The rack units a placed device occupies: its position is its lowest unit *)
Units(entry) == entry.position .. (entry.position + entry.height - 1)

(* C4: in every rack the first device placed has its top in U42 (position  *)
(* U42 for 1U, U41 for 2U), every later device sits directly below the     *)
(* lowest device placed before it, and no two devices share a rack unit.   *)
C4_StackDownward ==
    \A r \in DOMAIN rack_occupancy :
        \A placed \in {rack_occupancy[r]} :
            /\ placed # << >> => placed[1].position = 43 - placed[1].height
            /\ \A k \in 2..Len(placed) :
                  \A j \in 1..(k - 1) :
                      /\ placed[k].position + placed[k].height <= placed[j].position
                      /\ \E i \in 1..(k - 1) :
                            placed[k].position + placed[k].height = placed[i].position
            /\ \A k, j \in DOMAIN placed : k # j => Units(placed[k]) \cap Units(placed[j]) = {}

C4_Witness ==
    \E r \in DOMAIN rack_occupancy :
        /\ Len(rack_occupancy[r]) >= 4
        /\ rack_occupancy[r][1].height = 2
        /\ rack_occupancy[r][1].position = 41
        /\ rack_occupancy[r][2].height = 1
        /\ rack_occupancy[r][3].height = 2
        /\ rack_occupancy[r][3].position = 38

----------------------------------------------------------------------------
(* OOB and console cabling                                                 *)

OobCables == {k \in DOMAIN cables : cables[k].cable_type = "cat6"}

(* C5: every management or console cable starts at an OOB switch or a     *)
(* console server, and the number of that device and the number of the     *)
(* device it is cabled to are both even or both odd.                       *)
C5_SameParity ==
    \A k \in OobCables :
        /\ NumberOf(cables[k].source) % 2 = NumberOf(cables[k].target) % 2
        /\ cables[k].source.role \in {"oob", "console"}
        /\ cables[k].target # cables[k].source

C5_Witness ==
    /\ Called("create_oob_connections_console")
    /\ \E k \in OobCables :
          /\ cables[k].source.role = "oob"
          /\ NumberOf(cables[k].source) = 2 /\ NumberOf(cables[k].target) = 2
    /\ \E k \in OobCables :
          /\ cables[k].source.role = "console"
          /\ NumberOf(cables[k].source) = 1 /\ NumberOf(cables[k].target) = 3
    /\ \E d \in DevicesOf({"leaf"}) : NumberOf(d.name) = 4

----------------------------------------------------------------------------
(* Underlay and overlay                                                    *)

Finished == pc \in {"done", "failed"}

(* C6, as stated: every run of the generator, once over, has built exactly *)
(* one underlay, the one of its scenario (eBGP or OSPF, never both, never  *)
(* neither), and has built the iBGP EVPN overlay.                          *)
C6_OneUnderlayPlusOverlay ==
    Finished =>
        /\ Called("create_ibgp_overlay")
        /\ scenario = "ebgp" =>
              Called("create_ebgp_underlay") /\ ~Called("create_ospf_underlay")
        /\ scenario = "ospf" =>
              Called("create_ospf_underlay") /\ ~Called("create_ebgp_underlay")
        /\ scenario \in {"ebgp", "ospf"}

Spines == DevicesOf({"spine"})

LeafLike == DevicesOf({"leaf", "border_leaf"})

Underlay == {k \in DOMAIN sessions : sessions[k].session_type = "EXTERNAL"}

Overlay == {k \in DOMAIN sessions : sessions[k].session_type = "INTERNAL"}

SessionsFromTo(S, local, remote) ==
    {k \in S : sessions[k].name.local = local.name /\ sessions[k].name.remote = remote.name}

C8_DistinctAsns ==
    \A k \in Underlay :
        /\ sessions[k].local_as # sessions[k].remote_as
        /\ \A j \in Underlay :
              /\ (sessions[k].device.role = "spine" /\ sessions[j].device.role = "spine")
                    => sessions[k].local_as = sessions[j].local_as
              /\ (/\ sessions[k].device.role \in {"leaf", "border_leaf"}
                  /\ sessions[j].device.role \in {"leaf", "border_leaf"}
                  /\ sessions[k].device # sessions[j].device)
                    => sessions[k].local_as # sessions[j].local_as
              /\ sessions[k].name.remote = sessions[j].device
                    => sessions[k].remote_as = sessions[j].local_as

C8_Witness ==
    /\ Called("create_ebgp_underlay")
    /\ Cardinality(Spines) = 2
    /\ Cardinality(DevicesOf({"leaf"})) = 3
    /\ Cardinality(DevicesOf({"border_leaf"})) = 1
    /\ Cardinality({sessions[k].local_as : k \in Underlay}) = 5

(* C9: every iBGP overlay session has local ASN = remote ASN = the         *)
(* OVERLAY-ASN of the topology, and joins a spine and a leaf or border     *)
(* leaf, in either direction.                                              *)
C9_OverlaySessions ==
    \A k \in Overlay :
        /\ sessions[k].local_as = sessions[k].remote_as
        /\ overlay_asn_key(data.name) \in DOMAIN asns
        /\ sessions[k].local_as = asns[overlay_asn_key(data.name)]
        /\ \/ /\ sessions[k].name.local.role = "spine"
              /\ sessions[k].name.remote.role \in {"leaf", "border_leaf"}
           \/ /\ sessions[k].name.local.role \in {"leaf", "border_leaf"}
              /\ sessions[k].name.remote.role = "spine"

C9_Witness ==
    /\ pc = "done"
    /\ scenario = "ospf"
    /\ Cardinality(Spines) = 2
    /\ Cardinality(DevicesOf({"leaf"})) = 2
    /\ Cardinality(DevicesOf({"border_leaf"})) = 1
    /\ Cardinality(Overlay) = 12

----------------------------------------------------------------------------
(* Order of the phases                                                     *)

ClaimedOrder ==
    <<"load_data", "create_site", "create_location_hierarchy", "create_racks",
      "create_pools", "create_devices", "assign_devices_to_racks",
      "create_oob_connections_management", "create_oob_connections_console",
      "create_fabric_peering", "create_dual_loopbacks">>

RoutingMethods ==
    {"create_ospf_underlay", "create_autonomous_systems", "create_bgp_peer_groups",
     "create_ebgp_underlay", "create_ibgp_overlay"}

DeviceNames == {devices[k].name : k \in DOMAIN devices}

HasInterface(device, name) ==
    \E i \in interfaces : i.device = device /\ i.name = name

CalledBefore(method, i) == \E j \in 1..(i - 1) : trace[j] = method

(* C10: the methods are called in the order load data, site, pod/row       *)
(* hierarchy, racks, pools, devices with interfaces, rack assignment, OOB  *)
(* management cabling, console cabling, fabric cabling, loopbacks, then    *)
(* routing, one at a time; a BGP session step comes after the ASN step and *)
(* the peer-group step; every rack assignment, cable, loopback, OSPF       *)
(* instance and BGP session refers to devices and interfaces that exist,   *)
(* and every BGP session to an ASN and a peer group that exist.            *)
C10_PhaseOrder ==
    /\ \A i \in DOMAIN trace :
          /\ IF i <= Len(ClaimedOrder) THEN trace[i] = ClaimedOrder[i]
             ELSE trace[i] \in RoutingMethods
          /\ \A j \in DOMAIN trace : j # i => trace[j] # trace[i]
          /\ trace[i] \in {"create_ebgp_underlay", "create_ibgp_overlay"} =>
                /\ CalledBefore("create_autonomous_systems", i)
                /\ CalledBefore("create_bgp_peer_groups", i)
    /\ (~Finished /\ Len(trace) < Len(ClaimedOrder)) => pc = ClaimedOrder[Len(trace) + 1]
    /\ (~Finished /\ Len(trace) >= Len(ClaimedOrder)) => pc \in RoutingMethods
    /\ \A r \in DOMAIN rack_occupancy : \A k \in DOMAIN rack_occupancy[r] :
          rack_occupancy[r][k].device \in DeviceNames
    /\ \A k \in DOMAIN cables :
          /\ HasInterface(cables[k].source, cables[k].source_interface)
          /\ HasInterface(cables[k].target, cables[k].destination_interface)
    /\ \A o \in store : o[1] = "InterfaceVirtual" => o[2].device \in DeviceNames
    /\ ospf \subseteq DeviceNames
    /\ \A k \in DOMAIN sessions :
          /\ sessions[k].device \in DeviceNames
          /\ sessions[k].name.remote \in DeviceNames
          /\ loopback_key(sessions[k].device, "loopback0") \in store
          /\ loopback_key(sessions[k].name.remote, "loopback0") \in store
          /\ sessions[k].local_as \in Range(asns)
          /\ sessions[k].remote_as \in Range(asns)
          /\ <<"RoutingBGPPeerGroup", sessions[k].peer_group>> \in store

C10_Witness ==
    /\ pc = "done"
    /\ scenario = "ebgp"
    /\ Len(trace) = 15
    /\ \E r \in DOMAIN rack_occupancy : Len(rack_occupancy[r]) >= 3
    /\ \E k \in DOMAIN cables : cables[k].cable_type = "dac-passive"
    /\ OobCables # {}
    /\ Underlay # {}
    /\ Overlay # {}

----------------------------------------------------------------------------
(* Device names                                                            *)

QuantityOf(role) ==
    SumSeq([k \in DOMAIN data.design.elements |->
              IF data.design.elements[k].role = role
              THEN data.design.elements[k].quantity ELSE 0])

NumbersOf(role) ==
    {NumberOf(devices[k].name) : k \in {j \in DOMAIN devices : devices[j].role = role}}

(* C11: once the devices are created, every device is named by the         *)
(* lower-cased topology name, its role and a number written with at least  *)
(* two digits; no two devices have the same name (there are as many        *)
(* devices as the quantities of the design add up to); and for every role  *)
(* the numbers are 1, 2, ..., n over all elements of that role together.   *)
C11_UniqueNames ==
    (Called("create_devices") /\ pc # "failed") =>
        /\ \A k \in DOMAIN devices :
              /\ devices[k].name.site = Lower(data.name)
              /\ devices[k].name.role = devices[k].role
              /\ Len(devices[k].name.seq) >= 2
              /\ devices[k].name.seq = zfill(Digits(NumberOf(devices[k].name)), 2)
        /\ \A k, j \in DOMAIN devices : k # j => devices[k].name # devices[j].name
        /\ Len(devices) = QuantityOf("leaf") + QuantityOf("spine")
                             + QuantityOf("border_leaf") + QuantityOf("console")
                             + QuantityOf("oob")
        /\ \A role \in {"leaf", "spine", "border_leaf", "console", "oob"} :
              NumbersOf(role) = 1..QuantityOf(role)

C11_Witness ==
    /\ Called("create_devices")
    /\ Len(data.design.elements) = 3
    /\ data.design.elements[1].role = "leaf"
    /\ data.design.elements[2].role = "spine"
    /\ data.design.elements[3].role = "leaf"
    /\ data.name = "DC1"
    /\ NumbersOf("leaf") = 1..7
    /\ NumbersOf("spine") = 1..4
    /\ Len(devices) = 11


----------------------------------------------------------------------------
(* C12: range expansion                                                    *)

(* The numbers a part of a bracket stands for *)
NumbersOfPart(part) ==
    IF Len(part) = 1 THEN {part[1].value} ELSE part[1].value .. part[2].value

(* A bracket of numbers and of ranges a-b with a <= b, holding at least    *)
(* one "-" or ","                                                          *)
RangeNotation(name) ==
    /\ name.bracket # << >>
    /\ Len(name.bracket) >= 2 \/ Len(name.bracket[1]) >= 2
    /\ \A k \in DOMAIN name.bracket :
          /\ Len(name.bracket[k]) \in {1, 2}
          /\ \A j \in DOMAIN name.bracket[k] : name.bracket[k][j].isdigit
          /\ Len(name.bracket[k]) = 2 =>
                name.bracket[k][1].value <= name.bracket[k][2].value

(* The parts are written in ascending order and do not overlap *)
AscendingParts(name) ==
    \A k \in DOMAIN name.bracket : \A j \in DOMAIN name.bracket :
        k < j => \A a \in NumbersOfPart(name.bracket[k]) :
                   \A b \in NumbersOfPart(name.bracket[j]) : a < b

RECURSIVE AscendingSeq(_)
AscendingSeq(S) ==
    IF S = {} THEN << >>
    ELSE LET least == CHOOSE x \in S : \A y \in S : x <= y
         IN  <<least>> \o AscendingSeq(S \ {least})

(* The individual names of the range, ascending, each once *)
NamesOfRange(name) ==
    LET numbers == AscendingSeq(UNION {NumbersOfPart(name.bracket[k]) :
                                          k \in DOMAIN name.bracket})
    IN  [i \in DOMAIN numbers |-> InterfaceName(name.base, numbers[i], name.suffix)]

BothReturned == DOMAIN result = {"generators", "transforms"}

CopiesAgree == result["generators"] = result["transforms"]

(* C12 as stated: a name with range notation is mapped to exactly the      *)
(* individual names of the range, ascending, without duplicates or         *)
(* omissions; a name without notation to the list of itself; both copies   *)
(* return the same.                                                        *)
C12_ExpandExact ==
    (arg.fn = "expand_interface_range" /\ BothReturned) =>
        /\ CopiesAgree
        /\ RangeNotation(arg.value) =>
              result["generators"] = Returned(NamesOfRange(arg.value))
        /\ arg.value.bracket = << >> =>
              result["generators"] = Returned(<<arg.value>>)

(* C12, amended: a name whose bracket lists numbers and ranges in          *)
(* ascending order without overlap is mapped to exactly the individual     *)
(* names, ascending, each once; a name without notation to the list of     *)
(* itself; both copies give the same outcome on every input.               *)
C12_ExpandExactWhenAscending ==
    (arg.fn = "expand_interface_range" /\ BothReturned) =>
        /\ CopiesAgree
        /\ (RangeNotation(arg.value) /\ AscendingParts(arg.value)) =>
              result["generators"] = Returned(NamesOfRange(arg.value))
        /\ arg.value.bracket = << >> =>
              result["generators"] = Returned(<<arg.value>>)

(* Ethernet[1-2,3]/1 expanded by both copies *)
C12_Witness ==
    /\ arg.fn = "expand_interface_range"
    /\ arg.value = BracketName("Ethernet",
                       <<<<DigitField(1), DigitField(2)>>, <<DigitField(3)>>>>, "/1")
    /\ BothReturned
    /\ result["transforms"].value =
          <<InterfaceName("Ethernet", 1, "/1"), InterfaceName("Ethernet", 2, "/1"),
            InterfaceName("Ethernet", 3, "/1")>>


----------------------------------------------------------------------------
(* C13: unwrapping of query responses                                      *)

AllCleaned == DOMAIN result = {"generators", "checks", "transforms"}

(* The entries of the response that are exactly the wrapper {key: x} *)
Wrapped(key) ==
    {k \in DOMAIN arg.value.entries :
        /\ arg.value.entries[k].t = "dict"
        /\ DOMAIN arg.value.entries[k].entries = {key}}

IsEdge(item) == item.t = "dict" /\ DOMAIN item.entries = {"node"}

(* What one copy returned satisfies the three unwrapping rules *)
Unwraps(copy) ==
    /\ result[copy].t = "dict"
    /\ \A k \in Wrapped("value") :
          result[copy].entries[k] = arg.value.entries[k].entries["value"]
    /\ \A k \in Wrapped("node") :
          result[copy].entries[k] = clean_data(arg.value.entries[k].entries["node"])
    /\ \A k \in Wrapped("edges") :
          LET edges == arg.value.entries[k].entries["edges"]
          IN  (edges.t = "list" /\ \A i \in DOMAIN edges.elems : IsEdge(edges.elems[i])) =>
                result[copy].entries[k] =
                  List([i \in DOMAIN edges.elems |->
                          clean_data(edges.elems[i].entries["node"])])

(* C13: under every key, {"value": v} becomes v whatever v is, {"node": n} *)
(* the cleaned n, {"edges": [...]} the list of its cleaned nodes; the     *)
(* three copies give the same output for the same response.               *)
C13_CleanData ==
    (arg.fn = "clean_data" /\ AllCleaned /\ arg.value.t = "dict") =>
        /\ result["generators"] = result["checks"]
        /\ result["checks"] = result["transforms"]
        /\ Unwraps("generators")


----------------------------------------------------------------------------
(* C14: VxLAN parameters of a network segment                              *)

Segments ==
    UNION {{arg.value[i].interface_services[j] :
               j \in DOMAIN arg.value[i].interface_services} : i \in DOMAIN arg.value}

----------------------------------------------------------------------------
(* C15, C16: bootstrap                                                     *)

Required(k) == k \in DOMAIN platform /\ platform[k].command \in Range(steps)

FailedRequired == {k \in DOMAIN platform : Required(k) /\ platform[k].returncode # 0}

Exited == script.name = "bootstrap" /\ script.pc = "exit"

(* C15: exit code 1 when Infrahub never became ready or a required step    *)
(* failed, and then no later step has run; exit code 0 only after the five *)
(* required steps succeeded in order, whatever the repository and event    *)
(* action steps returned.                                                  *)
C15_FailFast ==
    (script.name = "bootstrap" /\ script.caller = "main") =>
      /\ script.ready # "True" => platform = << >>
      /\ \A k \in FailedRequired : k = Len(platform) /\ Exited /\ script.exit_code = 1
      /\ Exited =>
            /\ script.exit_code = 1 <=> (script.ready = "False" \/ FailedRequired # {})
            /\ script.exit_code = 0 =>
                  /\ Len(platform) = Len(steps) + 2
                  /\ \A k \in DOMAIN steps :
                        platform[k].command = steps[k] /\ platform[k].returncode = 0
                  /\ script.waited = REPOSITORY_SYNC_SECONDS

(* Exit code 0 although the repository could not be added and the event    *)
(* actions could not be loaded                                             *)
C15_Witness ==
    /\ Exited
    /\ script.exit_code = 0
    /\ Len(platform) = Len(steps) + 2
    /\ platform[Len(steps) + 1].output = "connection refused"
    /\ platform[Len(steps) + 2].returncode = 1


Returned_ready == script.name = "bootstrap" /\ script.pc = "returned"

(* C16: at most max_retries attempts are made; True is returned exactly    *)
(* when an attempt received HTTP 200, at that attempt; False once          *)
(* max_retries attempts have failed; and the call returns.                 *)
C16_ReadyCheck ==
    /\ [](script.name = "bootstrap" =>
            /\ script.attempt <= script.max_retries
            /\ script.pc = "requests.get" => script.attempt < script.max_retries
            /\ script.response = "200" <=> script.ready = "True"
            /\ script.ready = "True" => script.pc # "requests.get"
            /\ script.ready = "False" =>
                  /\ script.attempt = script.max_retries
                  /\ script.response # "200"
            /\ Returned_ready <=> (script.caller = "caller" /\ script.ready # ""))
    /\ <>Returned_ready

(* True at the third of six attempts; False after six failed attempts *)
C16_Witness ==
    /\ Returned_ready
    /\ script.max_retries = 6
    /\ \/ script.ready = "True" /\ script.attempt = 2
       \/ script.ready = "False" /\ script.attempt = 6 /\ script.response = "Timeout"


----------------------------------------------------------------------------
(* C17, C18: create_users_roles.py                                         *)

RbacExited == script.name = "create_users_roles" /\ script.pc = "exit"

(* How often the platform holds an object the script defines *)
CountPermission(objects, k) ==
    Cardinality(permission_edges(objects,
        identifier_of(permissions_to_create[k].kind, permissions_to_create[k].data)))

CountNamed(objects, kind, name) == Cardinality(name_edges(objects, kind, name))

EachExactlyOnce(objects) ==
    /\ \A k \in DOMAIN permissions_to_create : CountPermission(objects, k) = 1
    /\ \A k \in DOMAIN roles_config :
          CountNamed(objects, "CoreAccountRole", roles_config[k].name) = 1
    /\ \A k \in DOMAIN groups_config :
          CountNamed(objects, "CoreAccountGroup", groups_config[k].name) = 1
    /\ \A k \in DOMAIN users_config :
          CountNamed(objects, "CoreAccount", users_config[k].name) = 1

StepRank(step) ==
    CASE step = "permissions" -> 1
      [] step = "roles" -> 2
      [] step = "groups" -> 3
      [] step = "users" -> 4

(* The roles this run of the script has created *)
CreatedRoles ==
    {id \in DOMAIN platform :
        id > Len(script.start) /\ platform[id].kind = "CoreAccountRole"}

ConfigOf(role) ==
    roles_config[CHOOSE k \in DOMAIN roles_config : roles_config[k].name = role.key.name]

(* C18: the steps run in the order permissions, roles, groups, users, and  *)
(* every role the script creates is linked to every permission its         *)
(* configuration lists, each ensured to exist by the permission step.      *)
C18_PermissionsBeforeRoles ==
    script.name = "create_users_roles" =>
      /\ \A i \in DOMAIN script.steps : \A j \in DOMAIN script.steps :
            i < j => StepRank(script.steps[i]) <= StepRank(script.steps[j])
      /\ \A id \in CreatedRoles :
            \A k \in DOMAIN ConfigOf(platform[id]).permissions :
               LET permission == find_permission_by_identifier(platform,
                                     ConfigOf(platform[id]).permissions[k])
               IN  /\ permission # 0
                   /\ permission \in platform[id].links
                   /\ permission \in script.ensured


----------------------------------------------------------------------------
(* C19: create_proposed_change.py                                          *)

(* The proposed changes for the script's branch *)
ChangesFor(branch) ==
    {k \in DOMAIN platform.proposed_changes :
        platform.proposed_changes[k].source_branch = branch}

----------------------------------------------------------------------------
(* C20: errors of the API client                                           *)

ApiCalled == arg.fn = "api" /\ "caller" \in DOMAIN result

(* The message a caller of the method is to find at the head of the error *)
OperationOf(call) ==
    CASE call.method = "get_objects" /\ call.object_type = "TopologyDataCenter" ->
            "Failed to fetch datacenters"
      [] call.method = "get_objects" /\ call.object_type = "TopologyColocationCenter" ->
            "Failed to fetch colocation centers"
      [] call.method = "get_objects" -> "Failed to fetch DcimDevice"
      [] call.method = "get_location_buildings" -> "Failed to fetch location buildings"
      [] call.method = "get_pods_by_building" -> "Failed to fetch pods for building"
      [] call.method = "create_branch" -> "Failed to create branch"
      [] call.method = "create_proposed_change" -> "Failed to create proposed change"
      [] OTHER -> ApiMethod(call.method).operation

(* C20: whatever the SDK raises inside a method of the API client reaches  *)
(* the caller as an InfrahubAPIError or a subclass of it, with the failed  *)
(* operation at the head of its message; nothing else escapes.             *)
C20_OnlyApiErrors ==
    ApiCalled =>
      /\ result["caller"].raised # "" =>
            /\ issubclass(result["caller"].raised, "InfrahubAPIError")
            /\ result["caller"].message[1] = OperationOf(arg.value)
      /\ arg.value.sdk.raised # "" =>
            /\ result["caller"].raised # ""
            /\ result["caller"].message[Len(result["caller"].message)] =
                  arg.value.sdk.raised

(* The SDK is not reachable under get_pods_by_building: the caller gets an *)
(* InfrahubAPIError "Failed to fetch pods for building: GraphQL error: ..." *)
C20_Witness ==
    /\ ApiCalled
    /\ arg.value.method = "get_pods_by_building"
    /\ arg.value.sdk.raised = "ServerNotReachableError"
    /\ result["caller"] =
          Exception("InfrahubAPIError",
                    <<"Failed to fetch pods for building", "GraphQL error",
                      "ServerNotReachableError">>)


----------------------------------------------------------------------------
AssignCalled == arg.fn = "assign_vlan" /\ "caller" \in DOMAIN result

(* The update mutation was answered, with ok as given *)
MutationReports(ok) ==
    /\ arg.value.outcome.raised = ""
    /\ arg.value.outcome.answer.present
    /\ arg.value.outcome.answer.ok = ok

(* C21: assign_vlan_to_interface returns a result with success True and    *)
(* the updated interface exactly when the update mutation reports ok; when *)
(* the mutation reports ok false it raises InfrahubAPIError with "VLAN     *)
(* assignment mutation failed" in its message and returns no result.       *)
C21_AssignVlan ==
    AssignCalled =>
      /\ result["caller"].raised = "" <=> MutationReports("True")
      /\ result["caller"].raised = "" =>
            result["caller"].returned =
               [success |-> TRUE, interface |-> arg.value.outcome.answer.object]
      /\ MutationReports("False") =>
            /\ result["caller"].raised = "InfrahubAPIError"
            /\ \E k \in DOMAIN result["caller"].message :
                  result["caller"].message[k] = "VLAN assignment mutation failed"

(* The mutation is refused: the caller gets the error of the refusal under *)
(* the message of the method's handler                                     *)
C21_Witness ==
    /\ AssignCalled
    /\ MutationReports("False")
    /\ result["caller"] =
          Exception("InfrahubAPIError",
                    <<"Failed to assign VLAN to interface",
                      "VLAN assignment mutation failed", "result">>)


----------------------------------------------------------------------------
WorkflowOrder == <<"create_branch", "assign_vlan_to_interface", "create_proposed_change">>

VlanStepSucceeded(method) ==
    \E k \in DOMAIN script.calls :
        script.calls[k].method = method /\ script.calls[k].ok

VlanStepFailed(method) ==
    \E k \in DOMAIN script.calls :
        script.calls[k].method = method /\ ~script.calls[k].ok

(* C22: in the VLAN change workflow the calls are create branch, assign    *)
(* VLAN, create proposed change in this order, each made only after the    *)
(* one before it succeeded; what a successful step did stays in Infrahub   *)
(* whatever happens later (the branch, the assignment, the proposed        *)
(* change), and once the branch exists the page has shown its name.        *)
C22_KeepEarlierSteps ==
    script.name = "vlan_change" =>
      /\ Len(script.calls) <= Len(WorkflowOrder)
      /\ \A k \in DOMAIN script.calls :
            /\ script.calls[k].method = WorkflowOrder[k]
            /\ k > 1 => script.calls[k - 1].ok
      /\ VlanStepSucceeded("create_branch") =>
            /\ script.branch_name \in platform.branches
            /\ \E k \in DOMAIN script.shown :
                  script.shown[k].branch = script.branch_name
      /\ VlanStepSucceeded("assign_vlan_to_interface") =>
            <<script.branch_name, script.interface_id, script.vlan_id>> \in platform.vlans
      /\ VlanStepSucceeded("create_proposed_change") =>
            script.branch_name \in platform.changes

(* The proposed change fails after the two steps before it: the branch and *)
(* the assignment are in Infrahub, the error names the branch              *)
C22_Witness ==
    /\ script.name = "vlan_change"
    /\ script.pc = "done"
    /\ VlanStepSucceeded("create_branch")
    /\ VlanStepSucceeded("assign_vlan_to_interface")
    /\ VlanStepFailed("create_proposed_change")
    /\ script.branch_name \in platform.branches
    /\ <<script.branch_name, script.interface_id, script.vlan_id>> \in platform.vlans
    /\ platform.changes = {}
    /\ script.shown[3] =
          Display("error", "Proposed change creation failed", script.branch_name)


----------------------------------------------------------------------------
(* A workflow of the data-center page has been started *)
DcCreation == script.name = "create_dc" /\ script.workflow > 0

DcStepAdvances ==
    (DcCreation /\ DcCreation' /\ script'.workflow = script.workflow) =>
        /\ script'.step \in {script.step, script.step + 1}
        /\ (script.step = 5 /\ script' # script) => ~script'.active

DcFlags ==
    DcCreation =>
      /\ script.step \in 1 .. 5
      /\ script.branch_created <=> script.step >= 2
      /\ script.dc_created <=> script.step >= 3
      /\ script.pc_created <=> script.step = 5
      /\ script.branch_created => script.branch_name \in platform.branches
      /\ script.dc_created =>
            <<script.branch_name, script.dc_name>> \in platform.datacenters
      /\ script.pc_created => script.branch_name \in platform.changes

(* C23: the data-center creation workflow goes through its steps in the    *)
(* order 1, 2, 3, 4, 5, the step never changing but by one up; the flag of *)
(* a step (branch created, datacenter created, proposed change created) is *)
(* set exactly when the workflow is past the step and only when Infrahub   *)
(* holds what the step made; step 5 is reached with the three flags set    *)
(* only, and a workflow at step 5 becomes inactive.                        *)
C23_StepOrder ==
    /\ [][DcStepAdvances]_vars
    /\ []DcFlags
    /\ (DcCreation /\ script.step = 5 /\ script.active) ~> (DcCreation /\ ~script.active)

(* A workflow has completed: step 5, the three flags set, inactive, no     *)
(* error, and Infrahub holds the branch, the data center and the change    *)
C23_Witness ==
    /\ DcCreation
    /\ script.step = 5
    /\ ~script.active
    /\ script.branch_created /\ script.dc_created /\ script.pc_created
    /\ script.error = << >>
    /\ <<script.branch_name, script.dc_name>> \in platform.datacenters
    /\ script.branch_name \in platform.changes


----------------------------------------------------------------------------
(* The generator wait of the workflow has run, under a wait time that      *)
(* validate_config accepts                                                 *)
WaitedUnderValidConfig ==
    /\ DcCreation
    /\ script.waited # << >>
    /\ validate_config(script.generator_wait_time).raised = ""

ProgressInUnitInterval(update) ==
    /\ update.progress[2] > 0
    /\ 0 <= update.progress[1]
    /\ update.progress[1] <= update.progress[2]

(* C25: for every wait time that validate_config accepts (0 and above) the *)
(* generator wait ends without an exception after duration + 1 updates of  *)
(* the progress bar, each with a progress between 0 and 1, and the         *)
(* workflow goes on to the proposed-change step.                           *)
C25_WaitTerminates ==
    WaitedUnderValidConfig =>
      /\ script.waited[1].raised = ""
      /\ Len(script.waited[1].updates) = script.generator_wait_time + 1
      /\ \A k \in DOMAIN script.waited[1].updates :
            ProgressInUnitInterval(script.waited[1].updates[k])
      /\ script.step >= 4

(* The same for the wait times above 0, where the loop divides by a        *)
(* duration that is not 0                                                  *)
WaitTerminatesAboveZero ==
    (WaitedUnderValidConfig /\ script.generator_wait_time > 0) =>
      /\ script.waited[1].raised = ""
      /\ Len(script.waited[1].updates) = script.generator_wait_time + 1
      /\ \A k \in DOMAIN script.waited[1].updates :
            ProgressInUnitInterval(script.waited[1].updates[k])
      /\ script.step >= 4


----------------------------------------------------------------------------
(* The middle rack numbers rack assignment computes for the devices *)
MiddleRackNumbers ==
    LET count == Max(Cardinality(DevicesOf({"spine"})),
                     Cardinality(DevicesOf({"border_leaf"}))
                        + Len(role_containing(devices, "console"))
                        + Len(role_containing(devices, "oob")))
        racks == middle_rack_list(Cardinality(Leaves), count)
    IN  {racks[k] : k \in DOMAIN racks}

(* C24: for every design with at least one leaf, every middle rack number  *)
(* rack assignment computes lies in 1..total_racks (one rack per leaf), so *)
(* spines, border leafs, console servers and OOB switches go to racks that *)
(* exist and rack assignment does not fail.                                *)
C24_MiddleRacksExist ==
    (Called("assign_devices_to_racks") /\ Leaves # {}) =>
        /\ MiddleRackNumbers \subseteq 1 .. Cardinality(Leaves)
        /\ pc # "failed"

====
